---- MODULE Spec2Model ----
(***************************************************************************)
(* exo_changelog: the change graph, the loader's view of the change log,   *)
(* the planner (ChangeExecutor.change_plan) and the executor               *)
(* (ChangeExecutor.change, _change_all_forwards, apply_change) together    *)
(* with the recorder's table.                                              *)
(*                                                                         *)
(* A change key is a pair <<app_label, name>>; app labels and names are    *)
(* small integers so that Python's tuple ordering (sorted) is the          *)
(* lexicographic order KeyLess.  A target <<app_label, None>> stands for   *)
(* the Python target (app_label, None).                                    *)
(***************************************************************************)
EXTENDS Integers, Sequences, FiniteSets, TLC

VARIABLES
    disk_changes,     \* ChangeLoader.disk_changes: the keys of the changes on disk
    dependencies,     \* Change.dependencies of each change on disk (a set of keys)
    store,            \* the ChangeLog table: number of rows per key
    applied_changes,  \* ChangeLoader.applied_changes, read when the graph was built
    pc,               \* where the executor is
    targets,          \* argument of ChangeExecutor.change
    fake,             \* argument of ChangeExecutor.change
    plan,             \* the plan of the run: a sequence of <<key, backwards>>
    full_plan,        \* the plan on an empty database, ChangeExecutor.change
    changes_to_run,   \* _change_all_forwards: the changes still to apply
    idx,              \* _change_all_forwards: position in full_plan
    ip,               \* apply_change: the statement that runs next
    err,              \* the exception that ended the run, "" when none
    cycle,            \* the keys a CircularDependencyError carries
    log,              \* what the run did so far: progress callbacks, backend
                      \* calls and recorder writes, in order
    aborted,          \* the forwards run a backend error ended, when the next
                      \* process is asked for the same targets: its targets and
                      \* the applied set it was heading for
    state,            \* the ProjectState of the run: the changes whose
                      \* state_forwards were replayed into it
    connection,       \* argument of ChangeLoader.check_consistent_history
    conflicts,        \* what ChangeLoader.detect_conflicts returned
    lookup,           \* ChangeLoader.get_change_by_prefix: its arguments, the
                      \* matches it collected and what it returned
    loader,           \* ChangeLoader.build_graph at work: changed_apps,
                      \* unchanged_apps, ignore_no_changes, the dependencies
                      \* the changes declare and the position of the second loop
    operations,       \* Change.operations of the change whose operations are
                      \* called directly
    built,            \* what build_graph made of the same changes in another
                      \* process: the edges, and the error when it raised
    snapshots,        \* the ProjectState objects of a backwards run: the heap
                      \* of the objects, the local state, the dict states
    peer              \* the executor of another process on the same database:
                      \* what its variables hold while this one runs

vars == <<disk_changes, dependencies, store, applied_changes, pc, targets, fake,
          plan, full_plan, changes_to_run, idx, ip, err, cycle, log, aborted,
          state, connection, conflicts, lookup, loader, operations, built,
          snapshots, peer>>

graph_vars == <<disk_changes, dependencies>>

command_vars == <<connection, conflicts>>

package_vars == <<lookup, loader, operations, built, snapshots, peer>>

(***************************************************************************)
(* Bounds and universes                                                    *)
(***************************************************************************)
\* At most this many dependency edges in the changes on disk.
MaxDeps == 3

\* The same executor is not called again once a key has this many rows.
MaxRows == 2

\* The target (app_label, None): "unapply everything of app_label".
None == 0

AppLabels == {1, 2}

AllKeys == {<<1, 1>>, <<1, 2>>, <<1, 3>>, <<2, 1>>}

\* The sets of changes found on disk: three changes of one app, or two of
\* one app and one of another, or some of either.
Disks ==
    {d \in SUBSET AllKeys :
        /\ d # {}
        /\ \/ d \subseteq {<<1, 1>>, <<1, 2>>, <<1, 3>>}
           \/ d \subseteq {<<1, 1>>, <<1, 2>>, <<2, 1>>}}

Targets == AllKeys \cup {<<a, None>> : a \in AppLabels}

(***************************************************************************)
(* Sequences and ordering helpers                                          *)
(***************************************************************************)
InSeq(x, s) == \E i \in 1..Len(s) : s[i] = x

SeqSet(s) == {s[i] : i \in 1..Len(s)}

IndexOf(x, s) == CHOOSE i \in 1..Len(s) : s[i] = x /\ \A j \in 1..(i - 1) : s[j] # x

NoDuplicates(s) == \A i, j \in 1..Len(s) : s[i] = s[j] => i = j

\* Python's ordering of the tuples (app_label, name).
KeyLess(a, b) == a[1] < b[1] \/ (a[1] = b[1] /\ a[2] < b[2])

\* sorted in descending key order.
RECURSIVE sorted_descending(_)
sorted_descending(S) ==
    IF S = {} THEN <<>>
    ELSE LET m == CHOOSE x \in S : \A y \in S : y = x \/ KeyLess(y, x)
         IN  <<m>> \o sorted_descending(S \ {m})

RECURSIVE sorted(_)
sorted(S) ==
    IF S = {} THEN <<>>
    ELSE LET m == CHOOSE x \in S : \A y \in S : y = x \/ KeyLess(x, y)
         IN  <<m>> \o sorted(S \ {m})

(***************************************************************************)
(* The graph the loader builds.  Every dependency is a concrete key, so    *)
(* check_key returns it unchanged and both passes of build_graph add the   *)
(* edge child -> parent as written.                                        *)
(***************************************************************************)
nodes == disk_changes

parents(key) == dependencies[key]

children(key) == {k \in nodes : key \in dependencies[k]}

root_nodes == sorted({k \in nodes : parents(k) = {}})

leaf_nodes == sorted({k \in nodes : children(k) = {}})

\* A walk that follows the child edges in both directions.
neighbours_children(up, key) == children(key)

neighbours(up, key) == IF up THEN parents(key) ELSE children(key)

(***************************************************************************)
(* Depth-first walk with the current path tracked: a node met again on the *)
(* path is a cycle, reported as the part of the path from that node on.    *)
(* done is the order built so far; a finished node is appended after all   *)
(* of its neighbours, which are visited in ascending key order.            *)
(***************************************************************************)
RECURSIVE dfs_visit(_, _, _, _), dfs_each(_, _, _, _, _)
dfs_visit(up, node, path, done) ==
    IF InSeq(node, path)
    THEN [cycle |-> SubSeq(path, IndexOf(node, path), Len(path)), order |-> <<>>]
    ELSE IF InSeq(node, done)
    THEN [cycle |-> <<>>, order |-> done]
    ELSE LET r == dfs_each(up, sorted(neighbours(up, node)), 1, Append(path, node), done)
         IN  IF r.cycle # <<>> THEN r
             ELSE [cycle |-> <<>>, order |-> Append(r.order, node)]

dfs_each(up, ns, i, path, done) ==
    IF i > Len(ns) THEN [cycle |-> <<>>, order |-> done]
    ELSE LET r == dfs_visit(up, ns[i], path, done)
         IN  IF r.cycle # <<>> THEN r
             ELSE dfs_each(up, ns, i + 1, path, r.order)

\* [cycle, order]: the ancestors of target, parents first, target last.
forwards_plan(target) == dfs_visit(TRUE, target, <<>>, <<>>)

\* A backwards plan of the target and its direct children only.
backwards_plan_children_only(target) ==
    [cycle |-> <<>>, order |-> sorted(children(target) \ {target}) \o <<target>>]

\* [cycle, order]: the descendants of target, deepest first, target last.
backwards_plan(target) == dfs_visit(FALSE, target, <<>>, <<>>)

(***************************************************************************)
(* ChangeExecutor.change_plan.  The loop body of each of the three modes   *)
(* is "for change in <candidates>: if change (not) in applied: append to   *)
(* the plan and update applied"; collect is that loop.  A mode returns     *)
(* [cycle, plan, applied]; a non-empty cycle is the CircularDependencyError*)
(* the graph raised while the candidates were computed.                    *)
(***************************************************************************)
\* collect that leaves applied as it is (no applied.add / applied.remove).
RECURSIVE collect_applied_unchanged(_, _, _, _, _)
collect_applied_unchanged(cands, i, backwards, p, applied) ==
    IF i > Len(cands) THEN [cycle |-> <<>>, plan |-> p, applied |-> applied]
    ELSE IF backwards = (cands[i] \in applied)
    THEN collect_applied_unchanged(cands, i + 1, backwards,
                                   Append(p, <<cands[i], backwards>>), applied)
    ELSE collect_applied_unchanged(cands, i + 1, backwards, p, applied)

RECURSIVE collect(_, _, _, _, _)
collect(cands, i, backwards, p, applied) ==
    IF i > Len(cands) THEN [cycle |-> <<>>, plan |-> p, applied |-> applied]
    ELSE IF backwards = (cands[i] \in applied)
    THEN collect(cands, i + 1, backwards, Append(p, <<cands[i], backwards>>),
                 IF backwards THEN applied \ {cands[i]} ELSE applied \cup {cands[i]})
    ELSE collect(cands, i + 1, backwards, p, applied)

\* backwards_plan of each node of ns in turn, one after the other.
RECURSIVE backwards_plans(_, _)
backwards_plans(ns, i) ==
    IF i > Len(ns) THEN [cycle |-> <<>>, order |-> <<>>]
    ELSE LET r == backwards_plan(ns[i])
             rest == backwards_plans(ns, i + 1)
         IN  IF r.cycle # <<>> THEN r
             ELSE IF rest.cycle # <<>> THEN rest
             ELSE [cycle |-> <<>>, order |-> r.order \o rest.order]

raised(c) == [cycle |-> c, plan |-> <<>>, applied |-> {}]

\* target[1] is None: every root of the app, backwards.
plan_unapply_app(target, p, applied) ==
    LET roots == SelectSeq(root_nodes, LAMBDA root : root[1] = target[1])
        c == backwards_plans(roots, 1)
    IN  IF c.cycle # <<>> THEN raised(c.cycle)
        ELSE collect(c.order, 1, TRUE, p, applied)

\* plan_backwards with the test on the app inverted (n[0] != target[0]).
plan_backwards_other_apps(target, p, applied) ==
    LET next_in_app == sorted({n \in children(target) : n[1] # target[1]})
        c == backwards_plans(next_in_app, 1)
    IN  IF c.cycle # <<>> THEN raised(c.cycle)
        ELSE collect(c.order, 1, TRUE, p, applied)

\* plan_backwards that unapplies the target too, after its children in the app.
plan_backwards_with_target(target, p, applied) ==
    LET next_in_app == sorted({n \in children(target) : n[1] = target[1]})
        c == backwards_plans(next_in_app, 1)
    IN  IF c.cycle # <<>> THEN raised(c.cycle)
        ELSE collect(Append(c.order, target), 1, TRUE, p, applied)

\* plan_backwards going back all the way to the target node.
plan_backwards_to_target(target, p, applied) ==
    LET c == backwards_plan(target)
    IN  IF c.cycle # <<>> THEN raised(c.cycle)
        ELSE collect(c.order, 1, TRUE, p, applied)

\* target in applied: back through the target's children in the same app.
plan_backwards(target, p, applied) ==
    LET next_in_app == sorted({n \in children(target) : n[1] = target[1]})
        c == backwards_plans(next_in_app, 1)
    IN  IF c.cycle # <<>> THEN raised(c.cycle)
        ELSE collect(c.order, 1, TRUE, p, applied)

\* plan_forwards walking the graph the wrong way (backwards_plan for forwards_plan).
plan_forwards_descendants(target, p, applied) ==
    LET c == backwards_plan(target)
    IN  IF c.cycle # <<>> THEN raised(c.cycle)
        ELSE collect(c.order, 1, FALSE, p, applied)

\* plan_forwards with the graph's CircularDependencyError caught and dropped.
plan_forwards_swallow(target, p, applied) ==
    LET c == forwards_plan(target)
    IN  collect(c.order, 1, FALSE, p, applied)

\* plan_forwards without the test "if change not in applied".
plan_forwards_unfiltered(target, p, applied) ==
    LET c == forwards_plan(target)
    IN  IF c.cycle # <<>> THEN raised(c.cycle)
        ELSE [cycle |-> <<>>,
              plan |-> p \o [i \in 1..Len(c.order) |-> <<c.order[i], FALSE>>],
              applied |-> applied \cup SeqSet(c.order)]

\* plan_forwards planning the target alone, without its ancestors.
plan_forwards_target_only(target, p, applied) ==
    collect(<<target>>, 1, FALSE, p, applied)

\* otherwise: forwards to the target.
plan_forwards(target, p, applied) ==
    LET c == forwards_plan(target)
    IN  IF c.cycle # <<>> THEN raised(c.cycle)
        ELSE collect(c.order, 1, FALSE, p, applied)

plan_target(target, p, applied) ==
    IF target[2] = None THEN plan_unapply_app(target, p, applied)
    ELSE IF target \in applied THEN plan_backwards(target, p, applied)
    ELSE plan_forwards(target, p, applied)

RECURSIVE plan_targets(_, _, _, _)
plan_targets(tgts, i, p, applied) ==
    IF i > Len(tgts) THEN [cycle |-> <<>>, plan |-> p, applied |-> applied]
    ELSE LET r == plan_target(tgts[i], p, applied)
         IN  IF r.cycle # <<>> THEN r
             ELSE plan_targets(tgts, i + 1, r.plan, r.applied)

\* change_plan with the applied set it starts from made explicit.
change_plan_from(tgts, applied) == plan_targets(tgts, 1, <<>>, applied)

\* change_plan that starts from the empty applied set whatever clean_start is.
change_plan_always_clean(tgts, clean_start) == change_plan_from(tgts, {})

change_plan(tgts, clean_start) ==
    change_plan_from(tgts, IF clean_start THEN {} ELSE applied_changes)

units(p) == {p[i][1] : i \in 1..Len(p)}

all_forwards(p) == \A i \in 1..Len(p) : ~p[i][2]

\* all_backwards taken to be "not all_forwards".
all_backwards_not_forwards(p) == ~all_forwards(p)

all_backwards(p) == \A i \in 1..Len(p) : p[i][2]

(***************************************************************************)
(* The recorder                                                            *)
(***************************************************************************)
\* ChangeRecorder.applied_changes: the keys that have a row.
recorder_applied_changes == {k \in DOMAIN store : store[k] > 0}

(***************************************************************************)
(* ChangeExecutor.apply_change as the statements it runs, in order.        *)
(***************************************************************************)
\* apply_change writing the record before the backend call.
apply_change_record_first(fk) ==
    IF fk THEN <<"apply_start", "record_applied", "apply_success">>
    ELSE <<"apply_start", "record_applied", "apply", "apply_success">>

\* apply_change reporting apply_success before it writes the record.
apply_change_success_early(fk) ==
    IF fk THEN <<"apply_start", "apply_success", "record_applied">>
    ELSE <<"apply_start", "apply", "apply_success", "record_applied">>

apply_change(fk) ==
    IF fk THEN <<"apply_start", "record_applied", "apply_success">>
    ELSE <<"apply_start", "apply", "record_applied", "apply_success">>

\* The change apply_change is running on, and the statement it is at.
change_now == full_plan[idx][1]

stmt == apply_change(fake)[ip]

\* The statement is over: on to the next one, or back to the loop of
\* _change_all_forwards, which drops the change from changes_to_run.
next_stmt ==
    IF ip < Len(apply_change(fake))
    THEN /\ ip' = ip + 1
         /\ UNCHANGED <<pc, idx, changes_to_run>>
    ELSE /\ ip' = 0
         /\ pc' = "change_all_forwards"
         /\ idx' = idx + 1
         /\ changes_to_run' = changes_to_run \ {change_now}

\* An exception leaves the run.
raise(e, c) ==
    /\ pc' = "error"
    /\ err' = e
    /\ cycle' = c

(***************************************************************************)
(* The targets a caller passes: one target, two targets, or the leaves.    *)
(***************************************************************************)
GraphTargets == nodes \cup {<<a, None>> : a \in AppLabels}

TargetLists ==
    {<<t>> : t \in GraphTargets}
        \cup {<<t, u>> : t \in GraphTargets, u \in GraphTargets}
        \cup {leaf_nodes}

(***************************************************************************)
NoAbort == [targets |-> <<>>, goal |-> {}]

\* No ProjectState was made yet (no change key is <<None, None>>).
NoState == {<<None, None>>}

\* connection=None, and the connection of DEFAULT_DB_ALIAS.
Connections == {None, 1}

\* detect_conflicts was not called yet / returned {}.
NoConflicts == [a \in {} |-> {}]

(***************************************************************************)
(* Initial states: changes on disk with at most MaxDeps dependencies among *)
(* them, any change log over them, and an executor just constructed.       *)
(***************************************************************************)
\* No lookup was asked of the loader.
NoLookup == [app_label |-> None, name_prefix |-> <<>>, results |-> {}, ret |-> <<>>]

\* A loader whose graph is built: nothing is left of build_graph.
NoLoader ==
    [changed_apps |-> {}, unchanged_apps |-> {}, ignore_no_changes |-> FALSE,
     dependencies |-> <<>>, lists |-> <<>>, todo |-> {}, key |-> <<>>,
     parents |-> <<>>]

\* No other process has built the graph.
NoBuilt == [dependencies |-> <<>>, err |-> "none"]

\* No backwards run: no ProjectState object was made.
NoSnapshots ==
    [heap |-> <<>>, state |-> 0, states |-> <<>>, captured |-> <<>>,
     applied_changes |-> {}, handed |-> <<>>, calls |-> <<>>]

\* No other process.
NoPeer == [id |-> None]

package_idle ==
    /\ lookup = NoLookup
    /\ loader = NoLoader
    /\ operations = <<>>
    /\ built = NoBuilt
    /\ snapshots = NoSnapshots
    /\ peer = NoPeer

Init ==
    /\ disk_changes \in Disks
    /\ dependencies \in [AllKeys -> SUBSET AllKeys]
    /\ \A k \in AllKeys :
           dependencies[k] \subseteq (IF k \in disk_changes THEN disk_changes \ {k} ELSE {})
    /\ Cardinality({e \in AllKeys \X AllKeys : e[2] \in dependencies[e[1]]}) <= MaxDeps
    /\ store \in [AllKeys -> {0, 1}]
    /\ \A k \in AllKeys \ disk_changes : store[k] = 0
    /\ applied_changes = recorder_applied_changes
    /\ pc = "idle"
    /\ targets = <<>>
    /\ fake = FALSE
    /\ plan = <<>>
    /\ full_plan = <<>>
    /\ changes_to_run = {}
    /\ idx = 0
    /\ ip = 0
    /\ err = ""
    /\ cycle = <<>>
    /\ log = <<>>
    /\ aborted = NoAbort
    /\ state = NoState
    /\ connection = None
    /\ conflicts = NoConflicts
    /\ package_idle

(***************************************************************************)
(* ChangeExecutor.__init__: a new process builds the loader, which reads   *)
(* the applied changes from the recorder (build_graph).  It may follow a   *)
(* finished run, a failed run, or a run the process was killed in.         *)
(***************************************************************************)
ChangeExecutor_init ==
    /\ pc # "idle"
    /\ applied_changes' = recorder_applied_changes
    /\ pc' = "idle"
    /\ targets' = <<>>
    /\ fake' = FALSE
    /\ plan' = <<>>
    /\ full_plan' = <<>>
    /\ changes_to_run' = {}
    /\ idx' = 0
    /\ ip' = 0
    /\ err' = ""
    /\ cycle' = <<>>
    /\ log' = <<>>
    /\ aborted' = IF pc = "error" /\ err = "BackendError"
                  THEN [targets |-> targets,
                        goal |-> applied_changes \cup (units(plan) \cap units(full_plan))]
                  ELSE NoAbort
    /\ state' = NoState
    /\ UNCHANGED <<graph_vars, package_vars, command_vars, store>>

(***************************************************************************)
(* ChangeExecutor._create_project_state(with_applied_changes): a new       *)
(* ProjectState and, asked for, mutate_state of every change of the full   *)
(* plan fp that the loader read as applied.                                *)
(***************************************************************************)
create_project_state(with_applied_changes, fp) ==
    IF with_applied_changes THEN units(fp) \cap applied_changes ELSE {}

(***************************************************************************)
(* ChangeExecutor.change(targets, plan=None, fake): plans, then runs the   *)
(* plan forwards.  A backwards plan calls self._migrate_all_backwards,     *)
(* which the class does not define (AttributeError).                       *)
(***************************************************************************)
change(tgts, fk) ==
    /\ pc = "idle"
    /\ targets' = tgts
    /\ fake' = fk
    /\ log' = <<>>
    /\ ip' = 0
    /\ aborted' = IF tgts = aborted.targets THEN aborted ELSE NoAbort
    /\ LET p == change_plan(tgts, FALSE)
           fp == change_plan(leaf_nodes, TRUE)
       IN  IF p.cycle # <<>>
           THEN /\ raise("CircularDependencyError", p.cycle)
                /\ UNCHANGED <<plan, full_plan, changes_to_run, idx, state>>
           ELSE /\ plan' = p.plan
                /\ IF fp.cycle # <<>>
                   THEN /\ raise("CircularDependencyError", fp.cycle)
                        /\ UNCHANGED <<full_plan, changes_to_run, idx, state>>
                   ELSE /\ full_plan' = fp.plan
                        /\ IF p.plan = <<>>
                           THEN /\ pc' = "done"
                                /\ state' = create_project_state(TRUE, fp.plan)
                                /\ UNCHANGED <<changes_to_run, idx, err, cycle>>
                           ELSE IF all_forwards(p.plan) = all_backwards(p.plan)
                           THEN /\ raise("InvalidChangePlan", <<>>)
                                /\ UNCHANGED <<changes_to_run, idx, state>>
                           ELSE IF all_forwards(p.plan)
                           THEN /\ pc' = "change_all_forwards"
                                /\ changes_to_run' = units(p.plan)
                                /\ idx' = 1
                                /\ state' = create_project_state(TRUE, fp.plan)
                                /\ UNCHANGED <<err, cycle>>
                           ELSE /\ raise("AttributeError", <<>>)
                                /\ UNCHANGED <<changes_to_run, idx, state>>
    /\ UNCHANGED <<graph_vars, package_vars, command_vars, store, applied_changes>>

(***************************************************************************)
(* ChangeExecutor._change_all_forwards: one turn of "for change, _ in      *)
(* full_plan".                                                             *)
(***************************************************************************)
change_all_forwards ==
    /\ pc = "change_all_forwards"
    /\ IF changes_to_run = {} \/ idx > Len(full_plan)
       THEN /\ pc' = "done"
            /\ UNCHANGED <<idx, ip>>
       ELSE IF change_now \in changes_to_run
       THEN /\ pc' = "apply_change"
            /\ ip' = 1
            /\ UNCHANGED idx
       ELSE /\ idx' = idx + 1
            /\ UNCHANGED <<pc, ip>>
    /\ UNCHANGED <<graph_vars, package_vars, command_vars, state, store, applied_changes, targets, fake, plan, full_plan,
                   changes_to_run, err, cycle, log, aborted>>

\* self.progress_callback('apply_start' / 'apply_success', change, fake)
progress_callback ==
    /\ pc = "apply_change"
    /\ stmt \in {"apply_start", "apply_success"}
    /\ log' = Append(log, <<stmt, change_now>>)
    /\ next_stmt
    /\ UNCHANGED <<graph_vars, package_vars, command_vars, state, store, applied_changes, targets, fake, plan, full_plan,
                   err, cycle, aborted>>

\* state = change.apply(state, None): the operations' database_forwards ran.
change_apply ==
    /\ pc = "apply_change"
    /\ stmt = "apply"
    /\ log' = Append(log, <<"database_forwards", change_now>>)
    /\ next_stmt
    /\ UNCHANGED <<graph_vars, package_vars, command_vars, state, store, applied_changes, targets, fake, plan, full_plan,
                   err, cycle, aborted>>

\* change.apply raised and the record is written all the same (a finally).
change_apply_raises_recorded ==
    /\ pc = "apply_change"
    /\ stmt = "apply"
    /\ log' = Append(log, <<"database_error", change_now>>)
    /\ store' = [store EXCEPT ![change_now] = @ + 1]
    /\ raise("BackendError", <<>>)
    /\ UNCHANGED <<graph_vars, package_vars, command_vars, state, applied_changes, targets, fake, plan, full_plan,
                   changes_to_run, idx, ip, aborted>>

\* change.apply raised and the loop goes on with the next change (an except).
change_apply_raises_swallowed ==
    /\ pc = "apply_change"
    /\ stmt = "apply"
    /\ log' = Append(log, <<"database_error", change_now>>)
    /\ ip' = 0
    /\ pc' = "change_all_forwards"
    /\ idx' = idx + 1
    /\ changes_to_run' = changes_to_run \ {change_now}
    /\ UNCHANGED <<graph_vars, package_vars, command_vars, state, store, applied_changes, targets, fake, plan, full_plan,
                   err, cycle, aborted>>

\* change.apply raised: the exception leaves apply_change, the loop and change.
change_apply_raises ==
    /\ pc = "apply_change"
    /\ stmt = "apply"
    /\ log' = Append(log, <<"database_error", change_now>>)
    /\ raise("BackendError", <<>>)
    /\ UNCHANGED <<graph_vars, package_vars, command_vars, state, store, applied_changes, targets, fake, plan, full_plan,
                   changes_to_run, idx, ip, aborted>>

\* self.recorder.record_applied(change.app_label, change.name): one more row.
\* record_applied writing a row for every change of the plan at once.
record_applied_whole_plan ==
    /\ pc = "apply_change"
    /\ stmt = "record_applied"
    /\ store' = [k \in AllKeys |-> IF k \in units(plan) THEN store[k] + 1 ELSE store[k]]
    /\ log' = Append(log, <<"record_applied", change_now>>)
    /\ next_stmt
    /\ UNCHANGED <<graph_vars, package_vars, command_vars, state, applied_changes, targets,
                   fake, plan, full_plan, err, cycle, aborted>>

\* record_applied that writes no second row for a key (get_or_create).
record_applied_once ==
    /\ pc = "apply_change"
    /\ stmt = "record_applied"
    /\ store' = [store EXCEPT ![change_now] = IF @ = 0 THEN 1 ELSE @]
    /\ log' = Append(log, <<"record_applied", change_now>>)
    /\ next_stmt
    /\ UNCHANGED <<graph_vars, package_vars, command_vars, state, applied_changes, targets,
                   fake, plan, full_plan, err, cycle, aborted>>

\* record_applied that also adds the key to the loader's applied_changes.
record_applied_refreshes_loader ==
    /\ pc = "apply_change"
    /\ stmt = "record_applied"
    /\ store' = [store EXCEPT ![change_now] = @ + 1]
    /\ applied_changes' = applied_changes \cup {change_now}
    /\ log' = Append(log, <<"record_applied", change_now>>)
    /\ next_stmt
    /\ UNCHANGED <<graph_vars, package_vars, command_vars, state, targets, fake, plan,
                   full_plan, err, cycle, aborted>>

record_applied ==
    /\ pc = "apply_change"
    /\ stmt = "record_applied"
    /\ store' = [store EXCEPT ![change_now] = @ + 1]
    /\ log' = Append(log, <<"record_applied", change_now>>)
    /\ next_stmt
    /\ UNCHANGED <<graph_vars, package_vars, command_vars, state, applied_changes, targets, fake, plan, full_plan, err, cycle,
                   aborted>>

Next ==
    \/ ChangeExecutor_init
    \/ pc = "idle" /\ \E tgts \in TargetLists, fk \in BOOLEAN : change(tgts, fk)
    \/ change_all_forwards
    \/ progress_callback
    \/ change_apply
    \/ change_apply_raises
    \/ record_applied

Spec == Init /\ [][Next]_vars

(***************************************************************************)
(* The same executor called again.  ChangeExecutor.change returned, or the *)
(* caller caught what it raised, and the caller keeps the executor: the    *)
(* loader is not rebuilt, so applied_changes stays what build_graph read   *)
(* when the executor was constructed.                                      *)
(***************************************************************************)
change_returned ==
    /\ pc \in {"done", "error"}
    /\ \A k \in AllKeys : store[k] < MaxRows
    /\ pc' = "idle"
    /\ targets' = <<>>
    /\ fake' = FALSE
    /\ plan' = <<>>
    /\ full_plan' = <<>>
    /\ changes_to_run' = {}
    /\ idx' = 0
    /\ ip' = 0
    /\ err' = ""
    /\ cycle' = <<>>
    /\ log' = <<>>
    /\ aborted' = NoAbort
    /\ state' = NoState
    /\ UNCHANGED <<graph_vars, package_vars, command_vars, store, applied_changes>>

\* Two changes of one app on disk.
InitReuse == Init /\ disk_changes \subseteq {<<1, 1>>, <<1, 2>>}

NextReuse ==
    \/ Next
    \/ change_returned

SpecReuse == InitReuse /\ [][NextReuse]_vars

(***************************************************************************)
(* What the claims speak of, stated without the planner's walk: ancestors  *)
(* and descendants as closures of the edges, and the events of the log.    *)
(***************************************************************************)
RECURSIVE closure(_, _)
closure(up, S) ==
    LET T == S \cup UNION {neighbours(up, x) : x \in S}
    IN  IF T = S THEN S ELSE closure(up, T)

Ancestors(k) == closure(TRUE, parents(k))

Descendants(k) == closure(FALSE, children(k))

OnCycle(k) == k \in Ancestors(k)

Acyclic == \A k \in nodes : ~OnCycle(k)

\* k is on a cycle or has an ancestor on one.
ReachesCycle(k) == \E x \in Ancestors(k) \cup {k} : OnCycle(x)

Before(x, y, s) == \E i, j \in 1..Len(s) : i < j /\ s[i] = x /\ s[j] = y

Count(e, s) == Cardinality({i \in 1..Len(s) : s[i] = e})

BackendCalls(k) == Count(<<"database_forwards", k>>, log) + Count(<<"database_error", k>>, log)

\* change was called with one concrete target.
OneTarget == pc # "idle" /\ Len(targets) = 1 /\ targets[1][2] # None

Planned == OneTarget /\ err # "CircularDependencyError"

(***************************************************************************)
(* C1: in an acyclic graph, forwards_plan(k) holds k and every ancestor of *)
(* k, each once, and a change never comes before one of its parents; the   *)
(* plan change_plan makes of it on a clean start is that order.            *)
(***************************************************************************)
C1_ForwardsPlanParentsFirst ==
    Acyclic =>
        \A k \in nodes :
            LET r == forwards_plan(k)
                p == change_plan(<<k>>, TRUE)
            IN  /\ r.cycle = <<>>
                /\ SeqSet(r.order) = Ancestors(k) \cup {k}
                /\ NoDuplicates(r.order)
                /\ \A x \in SeqSet(r.order) : \A y \in parents(x) : Before(y, x, r.order)
                /\ p.cycle = <<>>
                /\ p.plan = [i \in 1..Len(r.order) |-> <<r.order[i], FALSE>>]

\* A forwards plan of three changes was made in an acyclic graph.
C1_Witness ==
    /\ Acyclic
    /\ OneTarget
    /\ applied_changes = {}
    /\ pc = "change_all_forwards"
    /\ Len(plan) = 3
    /\ \E x \in nodes : Cardinality(parents(x)) = 2

(***************************************************************************)
(* C2: planning forwards to a key that is on a cycle, or has an ancestor   *)
(* on one, raises CircularDependencyError; the keys it carries are all on  *)
(* a cycle; no plan is returned and nothing is run.                        *)
(***************************************************************************)
C2_CycleRaises ==
    /\ \A k \in nodes :
           ReachesCycle(k) =>
               LET r == forwards_plan(k)
               IN  /\ r.cycle # <<>>
                   /\ r.order = <<>>
                   /\ \A x \in SeqSet(r.cycle) : OnCycle(x)
    /\ (OneTarget /\ targets[1] \notin applied_changes /\ ReachesCycle(targets[1])) =>
           /\ pc = "error"
           /\ err = "CircularDependencyError"
           /\ cycle # <<>>
           /\ \A x \in SeqSet(cycle) : OnCycle(x)
           /\ plan = <<>>
           /\ log = <<>>

\* change was asked for a target whose ancestor is on a cycle it is not on.
C2_Witness ==
    /\ OneTarget
    /\ targets[1] \notin applied_changes
    /\ ~OnCycle(targets[1])
    /\ ReachesCycle(targets[1])
    /\ err = "CircularDependencyError"

(***************************************************************************)
(* C3: in a run that is not fake a record is written only after the        *)
(* backend call of that change returned: every record_applied in the log   *)
(* follows a completed database_forwards of the same change, every key the *)
(* table gained since the loader read it had its forward action completed, *)
(* and no key the loader read has lost its row (no backward action ever    *)
(* completes in a run started by change).                                  *)
(***************************************************************************)
C3_RecordOnlyAfterBackend ==
    (pc # "idle" /\ ~fake) =>
        \A k \in AllKeys :
            /\ \A i \in 1..Len(log) :
                   log[i] = <<"record_applied", k>> =>
                       \E j \in 1..(i - 1) : log[j] = <<"database_forwards", k>>
            /\ (k \in recorder_applied_changes \ applied_changes) =>
                   InSeq(<<"database_forwards", k>>, log)
            /\ k \in applied_changes => k \in recorder_applied_changes

\* A run that is not fake has just written the record of a change.
C3_Witness ==
    /\ pc = "apply_change"
    /\ ~fake
    /\ stmt = "apply_success"
    /\ change_now \in recorder_applied_changes \ applied_changes

(***************************************************************************)
(* C4: a backend error is the last thing a run does (it is not retried and *)
(* the run is over), and the table holds what it held before the failing   *)
(* change was tried: the changes the loader read and those of the plan     *)
(* that were completed, the failing change not among them.                 *)
(***************************************************************************)
C4_BackendErrorLeavesAppliedSet ==
    \A i \in 1..Len(log) :
        log[i][1] = "database_error" =>
            LET u == log[i][2]
            IN  /\ i = Len(log)
                /\ pc = "error"
                /\ err = "BackendError"
                /\ BackendCalls(u) = 1
                /\ u \in changes_to_run
                /\ u \notin recorder_applied_changes
                /\ recorder_applied_changes =
                       applied_changes \cup (units(plan) \ changes_to_run)

\* The backend failed on the first change of a run that had applied changes before it.
C4_Witness ==
    /\ pc = "error"
    /\ err = "BackendError"
    /\ changes_to_run = units(plan)
    /\ applied_changes # {}

(***************************************************************************)
(* C5: once the backend failed on a change the run is over: the changes of *)
(* the plan that were still to run have no backend call, no record and no  *)
(* progress callback, and the changes that were completed before are still *)
(* recorded.                                                               *)
(***************************************************************************)
C5_ErrorAbortsRemainingPlan ==
    \A i \in 1..Len(log) :
        log[i][1] = "database_error" =>
            /\ pc = "error"
            /\ \A k \in changes_to_run \ {log[i][2]} :
                   /\ \A j \in 1..Len(log) : log[j][2] # k
                   /\ k \notin recorder_applied_changes
            /\ \A k \in units(plan) \ changes_to_run :
                   /\ k \in recorder_applied_changes
                   /\ InSeq(<<"apply_success", k>>, log)

\* The backend failed on the second change of a plan of three.
C5_Witness ==
    /\ pc = "error"
    /\ err = "BackendError"
    /\ Len(plan) = 3
    /\ Cardinality(changes_to_run) = 2

(***************************************************************************)
(* C6.  When a backend error ended a forwards run, the plan a new loader   *)
(* makes for the same targets is the old plan without the changes recorded *)
(* since, in the old order, the failing change among them; and when the    *)
(* run of that plan is done the table holds what the run that was not      *)
(* interrupted would have left.                                            *)
(***************************************************************************)
\* The plan of a loader built now, for the targets of this run.
ResumedPlan == change_plan_from(targets, recorder_applied_changes)

NotRecorded(e) == e[1] \notin recorder_applied_changes

Resumable ==
    /\ (pc = "error" /\ err = "BackendError") =>
           /\ ResumedPlan.cycle = <<>>
           /\ ResumedPlan.plan = SelectSeq(plan, NotRecorded)
           /\ InSeq(<<change_now, FALSE>>, ResumedPlan.plan)
    /\ (pc = "done" /\ aborted.targets # <<>>) =>
           recorder_applied_changes = aborted.goal

\* change was called with leaves of the graph only.
LeafTargets ==
    /\ pc # "idle"
    /\ \A i \in 1..Len(targets) : targets[i][2] # None /\ children(targets[i]) = {}

\* C6 as claimed: resuming works for any targets.
C6_ResumeAnyTargets == Resumable

\* C6 as amended: resuming works when the targets are one concrete target,
\* or leaves of the graph only (what the apply command passes by default).
C6_ResumeOneTargetOrLeaves == (OneTarget \/ LeafTargets) => Resumable

\* A run for two leaves failed after its first change was recorded, and the
\* run of a new process for the same two leaves is done.
C6_Witness ==
    /\ pc = "done"
    /\ aborted.targets = targets
    /\ Len(targets) = 2
    /\ targets[1] # targets[2]
    /\ LeafTargets
    /\ applied_changes # {}
    /\ Len(plan) = 2
    /\ Cardinality(aborted.goal) = 3

(***************************************************************************)
(* C7 as claimed: the plan for an applied target B with an applied child C *)
(* rolls back C and then B.                                                *)
(***************************************************************************)
C7_ChildThenTarget ==
    (Planned /\ targets[1] \in applied_changes) =>
        \A c \in children(targets[1]) \cap applied_changes :
            Before(<<c, TRUE>>, <<targets[1], TRUE>>, plan)

(***************************************************************************)
(* C7 as amended: the plan for an applied target B never holds B; it rolls *)
(* back every applied child of B that is in B's app, and a child in        *)
(* another app only when that child descends from a child in B's app.      *)
(***************************************************************************)
C7_ChildInAppNeverTarget ==
    (Planned /\ targets[1] \in applied_changes) =>
        /\ targets[1] \notin units(plan)
        /\ \A c \in children(targets[1]) \cap applied_changes :
               IF c[1] = targets[1][1]
               THEN InSeq(<<c, TRUE>>, plan)
               ELSE c \in units(plan) =>
                        \E n \in children(targets[1]) :
                            n[1] = targets[1][1] /\ c \in Descendants(n)

\* The applied target has an applied child in its app and one in another app.
C7_Witness ==
    /\ Planned
    /\ targets[1] \in applied_changes
    /\ \E c \in children(targets[1]) \cap applied_changes : c[1] = targets[1][1]
    /\ \E c \in children(targets[1]) \cap applied_changes :
           c[1] # targets[1][1] /\ c \notin units(plan)

(***************************************************************************)
(* C8: for one concrete target that is applied the plan is backwards only  *)
(* and holds, each once, exactly the applied changes among the target's    *)
(* children in its app and their descendants; the target is not in it; no  *)
(* change comes before one of its descendants; and the changes that only   *)
(* the second child (in key order) brings come after those of the first.   *)
(***************************************************************************)
InAppChildren(t) == {n \in children(t) : n[1] = t[1]}

RolledBack(t) ==
    applied_changes \cap UNION {Descendants(n) \cup {n} : n \in InAppChildren(t)}

C8_RollbackThroughChildrenInApp ==
    (Planned /\ targets[1] \in applied_changes) =>
        /\ all_backwards(plan)
        /\ units(plan) = RolledBack(targets[1])
        /\ NoDuplicates(plan)
        /\ targets[1] \notin units(plan)
        /\ \A i, j \in 1..Len(plan) :
               i < j => plan[j][1] \notin Descendants(plan[i][1])
        /\ \A m, n \in InAppChildren(targets[1]) :
               KeyLess(m, n) =>
                   \A x \in RolledBack(targets[1]) \cap (Descendants(m) \cup {m}) :
                       \A y \in RolledBack(targets[1]) \ (Descendants(m) \cup {m}) :
                           Before(<<x, TRUE>>, <<y, TRUE>>, plan)

\* The applied target has two applied children in its app, neither above the other.
C8_Witness ==
    /\ Planned
    /\ targets[1] \in applied_changes
    /\ Len(plan) = 2
    /\ InAppChildren(targets[1]) = units(plan)

(***************************************************************************)
(* C9 as claimed: for the target (app, None) the plan is backwards only    *)
(* and holds the applied changes among the roots of the app and their      *)
(* descendants; once the run is over no change of the app is applied.      *)
(***************************************************************************)
C9_UnapplyAppLeavesNoneApplied ==
    (pc # "idle" /\ Len(targets) = 1 /\ targets[1][2] = None
         /\ err # "CircularDependencyError") =>
        /\ all_backwards(plan)
        /\ units(plan) =
               applied_changes \cap
                   UNION {Descendants(r) \cup {r} :
                              r \in {k \in nodes : parents(k) = {} /\ k[1] = targets[1][1]}}
        /\ pc \in {"done", "error"} =>
               \A k \in nodes : k[1] = targets[1][1] => k \notin recorder_applied_changes

(***************************************************************************)
(* C10 as claimed: for a concrete target that is not applied the plan is   *)
(* forwards_plan(target) without the applied changes, forwards; once the   *)
(* run is done the target and its ancestors are applied.                   *)
(***************************************************************************)
NotApplied(k) == k \notin applied_changes

C10_ForwardsTargetApplied ==
    (Planned /\ targets[1] \notin applied_changes) =>
        /\ plan = LET f == SelectSeq(forwards_plan(targets[1]).order, NotApplied)
                  IN  [i \in 1..Len(f) |-> <<f[i], FALSE>>]
        /\ pc = "done" =>
               Ancestors(targets[1]) \cup {targets[1]} \subseteq recorder_applied_changes

(***************************************************************************)
(* The apply command (Command.handle): an executor is constructed, the     *)
(* loader checks the history against the graph and looks for conflicts,    *)
(* the targets are worked out and the executor runs.  The table may hold   *)
(* rows of changes that are no longer on disk.                             *)
(***************************************************************************)
\* A history check that finds nothing.
inconsistent_never(applied) == FALSE

\* "any applied changes have unapplied dependencies", unknown changes skipped.
inconsistent(applied) ==
    \E key \in applied :
        /\ key \in nodes
        /\ \E parent \in parents(key) : parent \notin applied

\* ChangeLoader.check_consistent_history(connection).  The message of the
\* exception is formatted with connection.alias.
check_consistent_history(c) ==
    /\ pc = "handle"
    /\ connection' = c
    /\ IF inconsistent(recorder_applied_changes)
       THEN raise(IF c = None THEN "AttributeError" ELSE "InconsistentChangeHistory",
                  <<>>)
       ELSE /\ pc' = "checked"
            /\ UNCHANGED <<err, cycle>>
    /\ UNCHANGED <<graph_vars, package_vars, store, applied_changes, targets, fake, plan, full_plan,
                   changes_to_run, idx, ip, log, aborted, state, conflicts>>

\* seen_apps.setdefault(app_label, set()).add(change_name)
seen_add(seen_apps, app_label, change_name) ==
    [a \in DOMAIN seen_apps \cup {app_label} |->
        (IF a \in DOMAIN seen_apps THEN seen_apps[a] ELSE {})
            \cup (IF a = app_label THEN {change_name} ELSE {})]

\* The loop of detect_conflicts returning every app it has seen.
RECURSIVE detect_conflicts_loop_seen_apps(_, _, _, _)
detect_conflicts_loop_seen_apps(leaves, i, seen_apps, conflicting_apps) ==
    IF i > Len(leaves) THEN seen_apps
    ELSE detect_conflicts_loop_seen_apps(
             leaves, i + 1, seen_add(seen_apps, leaves[i][1], leaves[i][2]),
             conflicting_apps)

\* "for app_label, change_name in self.graph.leaf_nodes()" and the dict returned.
RECURSIVE detect_conflicts_loop(_, _, _, _)
detect_conflicts_loop(leaves, i, seen_apps, conflicting_apps) ==
    IF i > Len(leaves) THEN [a \in conflicting_apps |-> seen_apps[a]]
    ELSE detect_conflicts_loop(
             leaves, i + 1, seen_add(seen_apps, leaves[i][1], leaves[i][2]),
             IF leaves[i][1] \in DOMAIN seen_apps
             THEN conflicting_apps \cup {leaves[i][1]}
             ELSE conflicting_apps)

\* conflicts = executor.loader.detect_conflicts(); if conflicts: raise CommandError
detect_conflicts ==
    /\ pc = "checked"
    /\ conflicts' = detect_conflicts_loop(leaf_nodes, 1, NoConflicts, {})
    /\ IF DOMAIN conflicts' # {}
       THEN raise("CommandError", <<>>)
       ELSE /\ pc' = "targets"
            /\ UNCHANGED <<err, cycle>>
    /\ UNCHANGED <<graph_vars, package_vars, store, applied_changes, targets, fake, plan, full_plan,
                   changes_to_run, idx, ip, log, aborted, state, connection>>

InitCommand ==
    /\ disk_changes \in Disks
    /\ dependencies \in [AllKeys -> SUBSET AllKeys]
    /\ \A k \in AllKeys :
           dependencies[k] \subseteq (IF k \in disk_changes THEN disk_changes \ {k} ELSE {})
    /\ Cardinality({e \in AllKeys \X AllKeys : e[2] \in dependencies[e[1]]}) <= MaxDeps
    /\ store \in [AllKeys -> {0, 1}]
    /\ applied_changes = recorder_applied_changes
    /\ pc = "handle"
    /\ targets = <<>>
    /\ fake = FALSE
    /\ plan = <<>>
    /\ full_plan = <<>>
    /\ changes_to_run = {}
    /\ idx = 0
    /\ ip = 0
    /\ err = ""
    /\ cycle = <<>>
    /\ log = <<>>
    /\ aborted = NoAbort
    /\ state = NoState
    /\ connection = None
    /\ conflicts = NoConflicts
    /\ package_idle

\* loader.changed_apps of the command: the apps that have changes on disk.
changed_apps_on_disk == {k[1] : k \in disk_changes}

(***************************************************************************)
(* Command.handle from "If they supplied command line arguments" to the    *)
(* call of executor.change: the targets are worked out from the options.   *)
(* With both an app label and a change name the handler reads              *)
(* options['migration_name'], a key the parser never sets.                 *)
(***************************************************************************)
handle_targets(app_label, change_name, fk) ==
    /\ pc = "targets"
    /\ IF app_label # None /\ change_name # None
       THEN /\ raise("KeyError", <<>>)
            /\ UNCHANGED <<targets, fake>>
       ELSE IF app_label # None /\ app_label \notin changed_apps_on_disk
       THEN /\ raise("CommandError: App does not have changes", <<>>)
            /\ UNCHANGED <<targets, fake>>
       ELSE /\ targets' = IF app_label # None
                          THEN SelectSeq(leaf_nodes, LAMBDA key : key[1] = app_label)
                          ELSE leaf_nodes
            /\ fake' = fk
            /\ pc' = "idle"
            /\ UNCHANGED <<err, cycle>>
    /\ UNCHANGED <<graph_vars, package_vars, command_vars, store, applied_changes, plan, full_plan,
                   changes_to_run, idx, ip, log, aborted, state>>

NextCommand ==
    \/ \E c \in Connections : check_consistent_history(c)
    \/ detect_conflicts
    \/ \E app_label \in {None} \cup AppLabels, change_name \in {None, 1}, fk \in BOOLEAN :
           handle_targets(app_label, change_name, fk)
    \/ pc = "idle" /\ change(targets, fake)
    \/ change_all_forwards
    \/ progress_callback
    \/ change_apply
    \/ change_apply_raises
    \/ record_applied

SpecCommand == InitCommand /\ [][NextCommand]_vars

(***************************************************************************)
(* ChangeLoader.get_change_by_prefix.  The names of the changes are        *)
(* strings; a string is a sequence of letters and str.startswith compares  *)
(* the leading letters.  The loader holds the changes found on disk; the   *)
(* lookup does not touch the graph or the table.                           *)
(***************************************************************************)
\* The longest change name, in letters.
MaxName == 2

\* At most this many changes on disk for a lookup.
MaxDisk == 3

Letters == {"a", "b"}

\* The strings of at most n letters.
RECURSIVE Strings(_)
Strings(n) ==
    IF n = 0 THEN {<<>>}
    ELSE LET S == Strings(n - 1)
         IN  S \cup {Append(w, c) : w \in S, c \in Letters}

Names == Strings(MaxName) \ {<<>>}

LookupKeys == AppLabels \X Names

\* The sets of at most n keys.
RECURSIVE KeySets(_)
KeySets(n) ==
    IF n = 0 THEN {{}}
    ELSE LET S == KeySets(n - 1)
         IN  S \cup {d \cup {k} : d \in S, k \in LookupKeys}

\* A comparison of the whole name.
startswith_whole_name(name, prefix) == name = prefix

\* str.startswith
startswith(name, prefix) ==
    /\ Len(prefix) <= Len(name)
    /\ SubSeq(name, 1, Len(prefix)) = prefix

get_change_by_prefix(app_label, name_prefix) ==
    /\ pc = "idle"
    /\ LET results == {key \in disk_changes :
                          key[1] = app_label /\ startswith(key[2], name_prefix)}
       IN  /\ lookup' = [app_label |-> app_label,
                         name_prefix |-> name_prefix,
                         results |-> results,
                         ret |-> IF Cardinality(results) = 1
                                 THEN CHOOSE key \in results : TRUE
                                 ELSE <<>>]
           /\ IF Cardinality(results) > 1 THEN raise("AmbiguityError", <<>>)
              ELSE IF Cardinality(results) = 0 THEN raise("KeyError", <<>>)
              ELSE pc' = "done" /\ UNCHANGED <<err, cycle>>
    /\ UNCHANGED <<graph_vars, command_vars, store, applied_changes, targets, fake, plan,
                   full_plan, changes_to_run, idx, ip, log, aborted, state, loader, operations,
                   built, snapshots, peer>>

InitLookup ==
    /\ disk_changes \in KeySets(MaxDisk)
    /\ dependencies = [key \in disk_changes |-> {}]
    /\ store = [key \in disk_changes |-> 0]
    /\ applied_changes = {}
    /\ pc = "idle"
    /\ targets = <<>>
    /\ fake = FALSE
    /\ plan = <<>>
    /\ full_plan = <<>>
    /\ changes_to_run = {}
    /\ idx = 0
    /\ ip = 0
    /\ err = ""
    /\ cycle = <<>>
    /\ log = <<>>
    /\ aborted = NoAbort
    /\ state = NoState
    /\ connection = None
    /\ conflicts = NoConflicts
    /\ package_idle

NextLookup ==
    \E app_label \in AppLabels, name_prefix \in Strings(MaxName) :
        get_change_by_prefix(app_label, name_prefix)

SpecLookup == InitLookup /\ [][NextLookup]_vars

(***************************************************************************)
(* ChangeLoader.build_graph with symbolic dependencies.  A change declares *)
(* parents that are keys of changes on disk or (app, "__first__") /        *)
(* (app, "__latest__"); the two names are the numbers below, apart from    *)
(* every change name.  The first loop adds the nodes and the same-app      *)
(* edges, the second resolves the parents of other apps with check_key,    *)
(* one change after the other in the order of the dict, each change's      *)
(* parents in the order of its list.  run_before is empty, no change       *)
(* declares a parent that is not on disk, and none declares "__latest__"   *)
(* of its own app.                                                         *)
(***************************************************************************)
__first__ == -1

__latest__ == -2

\* At most this many declared dependencies in the changes on disk.
MaxDeclared == 2

\* The installed apps, and a label that is no installed app.
LoaderApps == {1, 2, 3}

LoaderKeys == {<<1, 1>>, <<1, 2>>, <<2, 1>>}

Sentinels == {__first__, __latest__}

\* The sequences that list the elements of S once each.
RECURSIVE Orders(_)
Orders(S) ==
    IF S = {} THEN {<<>>}
    ELSE UNION {{<<x>> \o o : o \in Orders(S \ {x})} : x \in S}

\* The sets of at most n declarations <<key, parent>>.
RECURSIVE Declarations(_, _)
Declarations(n, E) ==
    IF n = 0 THEN {{}}
    ELSE LET S == Declarations(n - 1, E)
         IN  S \cup {d \cup {e} : d \in S, e \in E}

\* list(self.graph.root_nodes(app)) for "__first__", leaf_nodes(app) otherwise.
app_nodes_roots(app, name) ==
    SelectSeq(root_nodes, LAMBDA node : node[1] = app)

app_nodes(app, name) ==
    IF name = __first__
    THEN SelectSeq(root_nodes, LAMBDA node : node[1] = app)
    ELSE SelectSeq(leaf_nodes, LAMBDA node : node[1] = app)

\* except IndexError, with ignore_no_changes taken as set.
no_changes_ignored == [ret |-> <<>>, err |-> ""]

\* except IndexError
no_changes ==
    IF loader.ignore_no_changes
    THEN [ret |-> <<>>, err |-> ""]
    ELSE [ret |-> <<>>, err |-> "ValueError: Dependency on app with no changes"]

\* ChangeLoader.check_key: ret is <<the key>>, or <<>> for None.
check_key(key, current_app) ==
    IF key[2] \notin Sentinels \/ key \in nodes
    THEN [ret |-> <<key>>, err |-> ""]
    ELSE IF key[1] = current_app
    THEN [ret |-> <<>>, err |-> ""]
    ELSE IF key[1] \in loader.unchanged_apps
    THEN [ret |-> <<>>, err |-> ""]
    ELSE IF key[1] \in loader.changed_apps
    THEN IF app_nodes(key[1], key[2]) # <<>>
         THEN [ret |-> <<app_nodes(key[1], key[2])[1]>>, err |-> ""]
         ELSE no_changes
    ELSE [ret |-> <<>>, err |-> "ValueError: Dependency on unknown app"]

\* The first loop of build_graph: add_node and add_internal_dependencies.
add_internal_dependencies ==
    /\ pc = "build_graph"
    /\ dependencies' =
           [key \in AllKeys |->
               IF key \in disk_changes
               THEN {parent \in loader.dependencies[key] :
                        parent[1] = key[1] /\ parent[2] # __first__}
               ELSE {}]
    /\ loader' = [loader EXCEPT !.todo = disk_changes]
    /\ pc' = "external"
    /\ UNCHANGED <<disk_changes, command_vars, lookup, operations, built, snapshots, peer,
                   store, applied_changes, targets,
                   fake, plan, full_plan, changes_to_run, idx, ip, err, cycle, log,
                   aborted, state>>

\* The second loop comes to the next change of the dict.  order is the
\* order of the parents of other apps in the change's list of dependencies:
\* lists keeps it, the list being the same in every process.
add_external_dependencies(key, order) ==
    /\ pc = "external"
    /\ loader.parents = <<>>
    /\ key \in loader.todo
    /\ key \in DOMAIN loader.lists => order = loader.lists[key]
    /\ loader' = [loader EXCEPT !.todo = @ \ {key}, !.key = key, !.parents = order,
                                !.lists = (key :> order) @@ @]
    /\ UNCHANGED <<graph_vars, command_vars, lookup, operations, built, snapshots, peer,
                   store, applied_changes, pc, targets,
                   fake, plan, full_plan, changes_to_run, idx, ip, err, cycle, log,
                   aborted, state>>

\* One turn of "for parent in change.dependencies" in add_external_dependencies.
add_external_dependency ==
    /\ pc = "external"
    /\ loader.parents # <<>>
    /\ LET key == loader.key
           parent == Head(loader.parents)
           r == check_key(parent, key[1])
       IN  /\ log' = Append(log, <<"check_key", parent, key[1], r.ret>>)
           /\ IF r.err # ""
              THEN /\ raise(r.err, <<>>)
                   /\ UNCHANGED <<dependencies, loader>>
              ELSE /\ dependencies' =
                          IF r.ret # <<>>
                          THEN [dependencies EXCEPT ![key] = @ \cup {r.ret[1]}]
                          ELSE dependencies
                   /\ loader' = [loader EXCEPT !.parents = Tail(@)]
                   /\ UNCHANGED <<pc, err, cycle>>
    /\ UNCHANGED <<disk_changes, command_vars, lookup, operations, built, snapshots, peer,
                   store, applied_changes, targets,
                   fake, plan, full_plan, changes_to_run, idx, ip, aborted, state>>

\* Every parent the loops added is a node: validate_consistency passes.
validate_consistency ==
    /\ pc = "external"
    /\ loader.parents = <<>>
    /\ loader.todo = {}
    /\ pc' = "done"
    /\ UNCHANGED <<graph_vars, package_vars, command_vars, store, applied_changes, targets,
                   fake, plan, full_plan, changes_to_run, idx, ip, err, cycle, log,
                   aborted, state>>

\* What a change may declare as a parent.
Declarable(key) ==
    ((disk_changes \ {key}) \cup (LoaderApps \X Sentinels)) \ {<<key[1], __latest__>>}

External(key) == {parent \in loader.dependencies[key] : parent[1] # key[1]}

InitLoader ==
    /\ disk_changes \in (SUBSET LoaderKeys) \ {{}}
    /\ dependencies = [key \in AllKeys |-> {}]
    /\ \E changed_apps \in SUBSET LoaderApps, unchanged_apps \in SUBSET LoaderApps,
          ignore_no_changes \in BOOLEAN,
          declared \in Declarations(MaxDeclared,
                                    {e \in LoaderKeys \X (LoaderKeys \cup (LoaderApps \X Sentinels)) :
                                        e[1] \in disk_changes /\ e[2] \in Declarable(e[1])}) :
           /\ changed_apps \cap unchanged_apps = {}
           /\ {key[1] : key \in disk_changes} \subseteq changed_apps
           /\ 3 \notin changed_apps \cup unchanged_apps
           /\ loader = [changed_apps |-> changed_apps,
                        unchanged_apps |-> unchanged_apps,
                        ignore_no_changes |-> ignore_no_changes,
                        dependencies |-> [key \in disk_changes |->
                                             {e[2] : e \in {d \in declared : d[1] = key}}],
                        lists |-> <<>>, todo |-> {}, key |-> <<>>, parents |-> <<>>]
    /\ store = [key \in AllKeys |-> 0]
    /\ applied_changes = {}
    /\ pc = "build_graph"
    /\ targets = <<>>
    /\ fake = FALSE
    /\ plan = <<>>
    /\ full_plan = <<>>
    /\ changes_to_run = {}
    /\ idx = 0
    /\ ip = 0
    /\ err = ""
    /\ cycle = <<>>
    /\ log = <<>>
    /\ aborted = NoAbort
    /\ state = NoState
    /\ connection = None
    /\ conflicts = NoConflicts
    /\ lookup = NoLookup
    /\ operations = <<>>
    /\ built = NoBuilt
    /\ snapshots = NoSnapshots
    /\ peer = NoPeer

\* Another process builds the graph of the same changes: the dict of the
\* changes is filled from a set of names, whose order is that of the hashes
\* of the process, so the loops may meet the changes in another order.
build_graph_again ==
    /\ pc \in {"done", "error"}
    /\ built = NoBuilt
    /\ built' = [dependencies |-> dependencies, err |-> err]
    /\ dependencies' = [key \in AllKeys |-> {}]
    /\ loader' = [loader EXCEPT !.todo = {}, !.key = <<>>, !.parents = <<>>]
    /\ pc' = "build_graph"
    /\ err' = ""
    /\ log' = <<>>
    /\ UNCHANGED <<disk_changes, command_vars, lookup, operations, snapshots, peer, store,
                   applied_changes, targets, fake, plan, full_plan, changes_to_run, idx,
                   ip, cycle, aborted, state>>

NextLoader ==
    \/ build_graph_again
    \/ add_internal_dependencies
    \/ \E key \in loader.todo : \E order \in Orders(External(key)) :
           add_external_dependencies(key, order)
    \/ add_external_dependency
    \/ validate_consistency

SpecLoader == InitLoader /\ [][NextLoader]_vars

(***************************************************************************)
(* The operations of one change, called directly: Change.apply calls       *)
(* database_forwards of each operation in turn, and database_backwards is  *)
(* asked of one operation.  An operation is RunSQL or RunPython; reverse   *)
(* says whether reverse_sql / reverse_code was given (is not None).        *)
(* RunSQL calls self._run_sql(sql), a method that takes (schema_editor,    *)
(* sqls): the call raises TypeError before any SQL runs.                   *)
(***************************************************************************)
\* At most this many operations in the change.
MaxOps == 2

Operations == [kind : {"RunSQL", "RunPython"}, reverse : BOOLEAN]

\* The sequences of 1..n operations.
RECURSIVE OperationLists(_)
OperationLists(n) ==
    IF n = 0 THEN {}
    ELSE LET S == OperationLists(n - 1)
         IN  {<<o>> : o \in Operations} \cup S \cup {Append(l, o) : l \in S, o \in Operations}

\* RunSQL.reversible, RunPython.reversible
reversible(operation) == operation.reverse

\* One turn of "for operation in self.operations" of Change.apply.
database_forwards ==
    /\ pc \in {"idle", "apply"}
    /\ IF ip > Len(operations)
       THEN /\ pc' = "done"
            /\ UNCHANGED <<ip, err, cycle, log>>
       ELSE IF operations[ip].kind = "RunSQL"
       THEN /\ raise("TypeError", <<>>)
            /\ log' = Append(log, <<"database_forwards", ip>>)
            /\ UNCHANGED ip
       ELSE /\ log' = log \o <<<<"database_forwards", ip>>, <<"code", ip>>>>
            /\ ip' = ip + 1
            /\ pc' = "apply"
            /\ UNCHANGED <<err, cycle>>
    /\ UNCHANGED <<graph_vars, package_vars, command_vars, store, applied_changes, targets,
                   fake, plan, full_plan, changes_to_run, idx, aborted, state>>

\* operations[i].database_backwards(app_label, schema_editor, from_state, to_state)
database_backwards(i) ==
    /\ pc = "idle"
    /\ IF ~reversible(operations[i])
       THEN /\ raise("NotImplementedError", <<>>)
            /\ log' = Append(log, <<"database_backwards", i>>)
       ELSE IF operations[i].kind = "RunSQL"
       THEN /\ raise("TypeError", <<>>)
            /\ log' = Append(log, <<"database_backwards", i>>)
       ELSE /\ log' = log \o <<<<"database_backwards", i>>, <<"reverse_code", i>>>>
            /\ pc' = "done"
            /\ UNCHANGED <<err, cycle>>
    /\ UNCHANGED <<graph_vars, package_vars, command_vars, store, applied_changes, targets,
                   fake, plan, full_plan, changes_to_run, idx, ip, aborted, state>>

InitOperations ==
    /\ disk_changes = {<<1, 1>>}
    /\ dependencies = [key \in AllKeys |-> {}]
    /\ store \in [AllKeys -> {0, 1}]
    /\ \A k \in AllKeys \ disk_changes : store[k] = 0
    /\ applied_changes = recorder_applied_changes
    /\ operations \in OperationLists(MaxOps)
    /\ pc = "idle"
    /\ targets = <<>>
    /\ fake = FALSE
    /\ plan = <<>>
    /\ full_plan = <<>>
    /\ changes_to_run = {}
    /\ idx = 0
    /\ ip = 1
    /\ err = ""
    /\ cycle = <<>>
    /\ log = <<>>
    /\ aborted = NoAbort
    /\ state = NoState
    /\ connection = None
    /\ conflicts = NoConflicts
    /\ lookup = NoLookup
    /\ loader = NoLoader
    /\ built = NoBuilt
    /\ snapshots = NoSnapshots
    /\ peer = NoPeer

NextOperations ==
    \/ database_forwards
    \/ \E i \in 1..Len(operations) : database_backwards(i)

SpecOperations == InitOperations /\ [][NextOperations]_vars

(***************************************************************************)
(* Two processes run the executor on the same database.  Each has its own  *)
(* ChangeExecutor, loader and plan; the ChangeLog table is the one thing   *)
(* they share.  The variables of the executor are those of the process     *)
(* that takes the next step and peer holds those of the other one; the     *)
(* scheduler may pass from one to the other between any two steps.  The    *)
(* first process has built its graph; the second has not been constructed  *)
(* yet and reads the table when it is.  Neither ChangeExecutor.__init__    *)
(* nor the recorder takes a lock.                                          *)
(***************************************************************************)
context_switch ==
    /\ peer # NoPeer
    /\ peer' = [id |-> 3 - peer.id, applied_changes |-> applied_changes, pc |-> pc,
                targets |-> targets, fake |-> fake, plan |-> plan,
                full_plan |-> full_plan, changes_to_run |-> changes_to_run,
                idx |-> idx, ip |-> ip, err |-> err, cycle |-> cycle, log |-> log,
                aborted |-> aborted, state |-> state]
    /\ applied_changes' = peer.applied_changes
    /\ pc' = peer.pc
    /\ targets' = peer.targets
    /\ fake' = peer.fake
    /\ plan' = peer.plan
    /\ full_plan' = peer.full_plan
    /\ changes_to_run' = peer.changes_to_run
    /\ idx' = peer.idx
    /\ ip' = peer.ip
    /\ err' = peer.err
    /\ cycle' = peer.cycle
    /\ log' = peer.log
    /\ aborted' = peer.aborted
    /\ state' = peer.state
    /\ UNCHANGED <<graph_vars, command_vars, store, lookup, loader, operations, built,
                   snapshots>>

InitConcurrent ==
    /\ disk_changes \in (SUBSET {<<1, 1>>, <<1, 2>>}) \ {{}}
    /\ dependencies \in [AllKeys -> SUBSET AllKeys]
    /\ \A k \in AllKeys :
           dependencies[k] \subseteq (IF k \in disk_changes THEN disk_changes \ {k} ELSE {})
    /\ store \in [AllKeys -> {0, 1}]
    /\ \A k \in AllKeys \ disk_changes : store[k] = 0
    /\ applied_changes = recorder_applied_changes
    /\ pc = "idle"
    /\ targets = <<>>
    /\ fake = FALSE
    /\ plan = <<>>
    /\ full_plan = <<>>
    /\ changes_to_run = {}
    /\ idx = 0
    /\ ip = 0
    /\ err = ""
    /\ cycle = <<>>
    /\ log = <<>>
    /\ aborted = NoAbort
    /\ state = NoState
    /\ connection = None
    /\ conflicts = NoConflicts
    /\ lookup = NoLookup
    /\ loader = NoLoader
    /\ operations = <<>>
    /\ built = NoBuilt
    /\ snapshots = NoSnapshots
    /\ peer = [id |-> 2, applied_changes |-> {}, pc |-> "new", targets |-> <<>>,
               fake |-> FALSE, plan |-> <<>>, full_plan |-> <<>>,
               changes_to_run |-> {}, idx |-> 0, ip |-> 0, err |-> "", cycle |-> <<>>,
               log |-> <<>>, aborted |-> NoAbort, state |-> NoState]

NextConcurrent ==
    \/ context_switch
    \/ pc = "new" /\ ChangeExecutor_init
    \/ pc = "idle" /\ \E fk \in BOOLEAN : change(leaf_nodes, fk)
    \/ change_all_forwards
    \/ progress_callback
    \/ change_apply
    \/ change_apply_raises
    \/ record_applied

SpecConcurrent == InitConcurrent /\ [][NextConcurrent]_vars

(***************************************************************************)
(* The other writers of the ChangeLog table: ChangeRecorder.flush and the  *)
(* generic views of views.py (urls.py routes ChangeLog/~create/,           *)
(* ChangeLog/<pk>/~delete/ and ChangeLog/<pk>/~update/), served while the  *)
(* executor is at any point.  A view's POST writes one row of the model;   *)
(* a request that ends in an error before the write changes nothing and    *)
(* is no step.                                                             *)
(***************************************************************************)
executor_vars ==
    <<applied_changes, pc, targets, fake, plan, full_plan, changes_to_run, idx, ip, err,
      cycle, log, aborted, state>>

executor_vars_but_log ==
    <<applied_changes, pc, targets, fake, plan, full_plan, changes_to_run, idx, ip, err,
      cycle, aborted, state>>

\* ChangeRecorder.flush: self.change_qs.all().delete()
flush ==
    /\ store' = [k \in AllKeys |-> 0]
    /\ UNCHANGED <<graph_vars, package_vars, command_vars, executor_vars>>

\* ChangeLogCreateView: a row (app, name) is saved.
ChangeLogCreateView(app, name) ==
    /\ store[<<app, name>>] < MaxRows
    /\ store' = [store EXCEPT ![<<app, name>>] = @ + 1]
    /\ UNCHANGED <<graph_vars, package_vars, command_vars, executor_vars>>

\* ChangeLogDeleteView: the row with the primary key of the request is deleted.
ChangeLogDeleteView(key) ==
    /\ store[key] > 0
    /\ store' = [store EXCEPT ![key] = @ - 1]
    /\ UNCHANGED <<graph_vars, package_vars, command_vars, executor_vars>>

\* ChangeLogUpdateView: the row with the primary key of the request gets
\* another app and name.
ChangeLogUpdateView(key, app, name) ==
    /\ store[key] > 0
    /\ <<app, name>> # key
    /\ store[<<app, name>>] < MaxRows
    /\ store' = [store EXCEPT ![key] = @ - 1, ![<<app, name>>] = @ + 1]
    /\ UNCHANGED <<graph_vars, package_vars, command_vars, executor_vars>>

\* The rows the views write.
ViewKeys == {<<1, 1>>, <<1, 2>>}

NextPackage ==
    \/ Next
    \/ flush
    \/ \E key \in ViewKeys : ChangeLogCreateView(key[1], key[2])
    \/ \E key \in ViewKeys : ChangeLogDeleteView(key)
    \/ \E key, to \in ViewKeys : ChangeLogUpdateView(key, to[1], to[2])

SpecPackage == InitReuse /\ [][NextPackage]_vars

(***************************************************************************)
(* C11: when every change of the graph is applied, the plan for the leaves *)
(* of the graph (clean_start=False) is empty, and the run of that plan is  *)
(* done at once: no progress callback, no backend call, no record written, *)
(* the table as it was.  (Planning raised no CircularDependencyError.)     *)
(***************************************************************************)
AllApplied == nodes \subseteq applied_changes

C11_AllAppliedPlanEmpty ==
    (pc # "idle" /\ targets = leaf_nodes /\ AllApplied
         /\ err # "CircularDependencyError") =>
        /\ change_plan(leaf_nodes, FALSE).plan = <<>>
        /\ plan = <<>>
        /\ pc = "done"
        /\ err = ""
        /\ log = <<>>
        /\ recorder_applied_changes = applied_changes
        /\ \A k \in AllKeys : store[k] <= 1

\* The run for the two leaves of a graph of three applied changes is done.
C11_Witness ==
    /\ pc = "done"
    /\ targets = leaf_nodes
    /\ Len(leaf_nodes) = 2
    /\ Cardinality(nodes) = 3
    /\ AllApplied

(***************************************************************************)
(* C12 as claimed: when a fake run is over no backend call was made, every *)
(* forward entry of its plan is applied and every backward entry of its    *)
(* plan is not applied any more.                                           *)
(***************************************************************************)
C12_FakeRunSameTransitions ==
    (pc \in {"done", "error"} /\ fake
         /\ err \notin {"CircularDependencyError", "InvalidChangePlan"}) =>
        /\ \A k \in AllKeys : BackendCalls(k) = 0
        /\ \A i \in 1..Len(plan) :
               IF plan[i][2] THEN plan[i][1] \notin recorder_applied_changes
               ELSE plan[i][1] \in recorder_applied_changes

(***************************************************************************)
(* C13: a plan with a forward and a backward entry ends the run with       *)
(* InvalidChangePlan before any callback, backend call, record or project  *)
(* state; a plan that is not empty and has entries of one direction only   *)
(* never ends with InvalidChangePlan, nor does the empty plan.  (Planning  *)
(* of the plan and of the full plan raised no CircularDependencyError.)    *)
(***************************************************************************)
Mixed(p) == (\E i \in 1..Len(p) : p[i][2]) /\ (\E i \in 1..Len(p) : ~p[i][2])

C15_NoKeyTwice ==
    pc # "idle" => \A i, j \in 1..Len(plan) : plan[i][1] = plan[j][1] => i = j

(***************************************************************************)
(* C15 as amended: two entries of the plan for the same key with no entry  *)
(* for that key between them have opposite directions; so a plan of one    *)
(* direction holds no key twice, and a key unapplied for an earlier target *)
(* can come again, forwards, for a later one.                              *)
(***************************************************************************)
C15_KeyTwiceOnlyOtherDirection ==
    pc # "idle" =>
        /\ \A i, j \in 1..Len(plan) :
               (/\ i < j
                /\ plan[i][1] = plan[j][1]
                /\ \A l \in (i + 1)..(j - 1) : plan[l][1] # plan[i][1]) =>
                   plan[i][2] # plan[j][2]
        /\ (all_forwards(plan) \/ all_backwards(plan)) =>
               \A i, j \in 1..Len(plan) : plan[i][1] = plan[j][1] => i = j

\* An app was unapplied and then one of its changes named: the change is in
\* the plan backwards and then forwards.
C15_Witness ==
    /\ pc # "idle"
    /\ Len(targets) = 2
    /\ targets[1][2] = None
    /\ targets[2][2] # None
    /\ \E i, j \in 1..Len(plan) :
           i < j /\ plan[i] = <<targets[2], TRUE>> /\ plan[j] = <<targets[2], FALSE>>

(***************************************************************************)
(* C16 as claimed: when a forwards run is done, every change of its plan   *)
(* was applied once (one backend call unless fake, one record), no other   *)
(* change was touched, and the records were written in the order of the    *)
(* full plan.                                                              *)
(***************************************************************************)
C16_ForwardRunAppliesPlan ==
    (pc = "done" /\ plan # <<>> /\ all_forwards(plan)) =>
        /\ \A k \in units(plan) :
               /\ Count(<<"record_applied", k>>, log) = 1
               /\ ~fake => Count(<<"database_forwards", k>>, log) = 1
        /\ \A i \in 1..Len(log) : log[i][2] \in units(plan)
        /\ \A x, y \in units(plan) :
               Before(<<x, FALSE>>, <<y, FALSE>>, full_plan) =>
                   Before(<<"record_applied", x>>, <<"record_applied", y>>, log)

(***************************************************************************)
(* C17 as claimed: when a run with a backwards plan is over, it ended      *)
(* without an error, every change of the plan was unapplied once, in the   *)
(* order of the plan, and none of them is applied any more.                *)
(***************************************************************************)
C17_BackwardRunUnappliesPlan ==
    (pc \in {"done", "error"} /\ plan # <<>> /\ all_backwards(plan)
         /\ err # "CircularDependencyError") =>
        /\ err = ""
        /\ \A k \in units(plan) :
               /\ Count(<<"record_unapplied", k>>, log) = 1
               /\ k \notin recorder_applied_changes
        /\ \A i, j \in 1..Len(plan) :
               i < j => Before(<<"record_unapplied", plan[i][1]>>,
                               <<"record_unapplied", plan[j][1]>>, log)

(***************************************************************************)
(* C18 as claimed, for a change k without parents that was applied         *)
(* forwards and is the only change of the plan that unapplies its app:     *)
(* when that run is over it ended without an error, k is not applied, and  *)
(* the project state is the one the forwards run started from (that of     *)
(* the applied changes without k).                                         *)
(***************************************************************************)
C18_RoundTripRestoresState ==
    \A k \in nodes :
        (/\ pc \in {"done", "error"}
         /\ targets = <<<<k[1], None>>>>
         /\ parents(k) = {}
         /\ plan = <<<<k, TRUE>>>>
         /\ err # "CircularDependencyError") =>
            /\ err = ""
            /\ k \notin recorder_applied_changes
            /\ state = (units(full_plan) \cap applied_changes) \ {k}

(***************************************************************************)
(* C14.  A key was in the persisted applied set when change was called if  *)
(* it has a row that the run did not write.                                *)
(***************************************************************************)
PersistedAtCall(k) == store[k] - Count(<<"record_applied", k>>, log) > 0

\* The loader's applied_changes is the persisted applied set of the time
\* change was called: the loader was built after the last write.
LoaderUpToDate == \A k \in AllKeys : k \in applied_changes <=> PersistedAtCall(k)

Lifecycle ==
    \A k \in AllKeys :
        /\ PersistedAtCall(k) =>
               /\ BackendCalls(k) = 0
               /\ Count(<<"record_applied", k>>, log) = 0
        /\ Count(<<"record_applied", k>>, log) <= 1
        /\ Count(<<"record_unapplied", k>>, log) = 0

\* C14 as claimed: over any sequence of calls of change, a change that is
\* in the persisted applied set is never applied again (no backend call, no
\* second record), and one that is not in it is never unapplied.
C14_NeverAppliedTwice == Lifecycle

\* C14 as amended: the same, for every call of change on an executor whose
\* loader was built after the last write to the table.
C14_NeverAppliedTwiceLoaderUpToDate == LoaderUpToDate => Lifecycle

\* A run whose loader was up to date applied the child of an applied change
\* and is done.
C14_Witness ==
    /\ pc = "done"
    /\ LoaderUpToDate
    /\ Len(plan) = 1
    /\ applied_changes # {}
    /\ applied_changes \subseteq parents(plan[1][1])
    /\ Count(<<"record_applied", plan[1][1]>>, log) = 1

(***************************************************************************)
(* C19 as claimed: check_consistent_history raises                         *)
(* InconsistentChangeHistory exactly when some applied change that is in   *)
(* the graph has a parent that is not applied; otherwise it returns.       *)
(***************************************************************************)
C19_InconsistentHistoryRaises ==
    pc # "handle" =>
        /\ inconsistent(recorder_applied_changes) <=> err = "InconsistentChangeHistory"
        /\ err \in {"", "InconsistentChangeHistory", "CommandError"}

(***************************************************************************)
(* C20.  The leaves of an app, and what detect_conflicts is to return.     *)
(***************************************************************************)
LeavesOf(a) == {k \in nodes : children(k) = {} /\ k[1] = a}

Detected == pc = "targets" \/ (pc = "error" /\ err = "CommandError")

ConflictsAreLeaves ==
    /\ DOMAIN conflicts = {a \in AppLabels : Cardinality(LeavesOf(a)) > 1}
    /\ \A a \in DOMAIN conflicts : conflicts[a] = {k[2] : k \in LeavesOf(a)}

\* C20 as claimed: detect_conflicts returns the apps with more than one leaf,
\* each with the names of all its leaves, and two changes of one app with no
\* edge between them and no change depending on both are always reported.
C20_UnrelatedPairReported ==
    Detected =>
        /\ ConflictsAreLeaves
        /\ \A x, y \in nodes :
               (/\ x # y
                /\ x[1] = y[1]
                /\ x \notin parents(y)
                /\ y \notin parents(x)
                /\ ~\E z \in nodes : {x, y} \subseteq parents(z)) =>
                   x[1] \in DOMAIN conflicts

\* C20 as amended: detect_conflicts returns the apps with more than one leaf,
\* each with the names of all its leaves; an app with one leaf is not
\* returned, and two changes of one app that are both leaves are.
C20_TwoLeavesReported ==
    Detected =>
        /\ ConflictsAreLeaves
        /\ \A a \in AppLabels : Cardinality(LeavesOf(a)) = 1 => a \notin DOMAIN conflicts
        /\ \A x, y \in nodes :
               (x # y /\ x[1] = y[1] /\ children(x) = {} /\ children(y) = {}) =>
                   {x[2], y[2]} \subseteq conflicts[x[1]]
        /\ (err = "CommandError") <=> (conflicts # NoConflicts)

\* An app with two leaves was reported, and another app has one leaf.
C20_Witness ==
    /\ pc = "error"
    /\ err = "CommandError"
    /\ DOMAIN conflicts = {1}
    /\ Cardinality(conflicts[1]) = 2
    /\ Cardinality(LeavesOf(2)) = 1

(***************************************************************************)
(* C21: when the history read at the start of the command is inconsistent  *)
(* or an app has more than one leaf, the command stops with an error       *)
(* before it works out targets or a plan: no backend call is made and no   *)
(* row is written in that invocation.                                      *)
(***************************************************************************)
AppliedBeforeParent ==
    \E k \in nodes \cap applied_changes : ~(parents(k) \subseteq applied_changes)

StructuralError ==
    \/ AppliedBeforeParent
    \/ \E a \in AppLabels : Cardinality(LeavesOf(a)) > 1

C21_StructuralErrorHaltsBeforePlanning ==
    StructuralError =>
        /\ pc \in {"handle", "checked", "error"}
        /\ pc = "checked" => ~AppliedBeforeParent
        /\ pc = "error" =>
               err \in {"AttributeError", "InconsistentChangeHistory", "CommandError"}
        /\ targets = <<>>
        /\ plan = <<>>
        /\ log = <<>>
        /\ recorder_applied_changes = applied_changes

C21_Witness ==
    /\ StructuralError
    /\ pc = "error"
    /\ nodes \ applied_changes # {}
    /\ Acyclic

(***************************************************************************)
(* C22: in a graph that is the chain a <- b <- c, the leaf nodes are {c},  *)
(* the root nodes are {a} and forwards_plan(c) is a, b, c; a root is a     *)
(* node with no parent and a leaf is a node with no child.                 *)
(***************************************************************************)
Chain(a, b, c) ==
    /\ nodes = {a, b, c}
    /\ Cardinality({a, b, c}) = 3
    /\ parents(a) = {}
    /\ parents(b) = {a}
    /\ parents(c) = {b}

C22_ChainRootLeafPlan ==
    /\ SeqSet(root_nodes) = {k \in nodes : \A x \in nodes : x \notin dependencies[k]}
    /\ SeqSet(leaf_nodes) = {k \in nodes : \A x \in nodes : k \notin dependencies[x]}
    /\ \A a, b, c \in nodes :
           Chain(a, b, c) =>
               /\ leaf_nodes = <<c>>
               /\ root_nodes = <<a>>
               /\ forwards_plan(c) = [cycle |-> <<>>, order |-> <<a, b, c>>]
               /\ change_plan(<<c>>, TRUE).plan = <<<<a, FALSE>>, <<b, FALSE>>, <<c, FALSE>>>>

\* The chain was planned from its leaf with nothing applied, and is running.
C22_Witness ==
    \E a, b, c \in nodes :
        /\ Chain(a, b, c)
        /\ applied_changes = {}
        /\ targets = leaf_nodes
        /\ pc = "change_all_forwards"
        /\ plan = <<<<a, FALSE>>, <<b, FALSE>>, <<c, FALSE>>>>

(***************************************************************************)
(* C23: where no cycle is met below k, backwards_plan(k) holds k and every *)
(* descendant of k, each once and nothing else, and every change comes     *)
(* after the changes that depend on it.                                    *)
(***************************************************************************)
C23_BackwardsPlanChildrenFirst ==
    \A k \in nodes :
        LET r == backwards_plan(k)
        IN  IF \E x \in Descendants(k) \cup {k} : OnCycle(x)
            THEN r.cycle # <<>> /\ r.order = <<>>
            ELSE /\ r.cycle = <<>>
                 /\ SeqSet(r.order) = Descendants(k) \cup {k}
                 /\ NoDuplicates(r.order)
                 /\ \A x \in SeqSet(r.order) :
                        \A y \in children(x) : Before(y, x, r.order)
                 /\ r.order[Len(r.order)] = k

\* A backward plan of a change with a child and a grandchild, all applied,
\* was asked of the executor.
C23_Witness ==
    /\ Acyclic
    /\ OneTarget
    /\ pc = "error"
    /\ err = "AttributeError"
    /\ \E k \in nodes :
           /\ Len(backwards_plan(k).order) = 3
           /\ \E y \in children(k) : children(y) # {}
           /\ plan = [i \in 1..2 |-> <<backwards_plan(k).order[i], TRUE>>]

(***************************************************************************)
(* C30: when the applied set the loader read before the run is closed      *)
(* under dependencies (every parent of an applied change is applied), the  *)
(* recorded set is closed after every single step of the run: a change is  *)
(* recorded only after all of its parents.                                 *)
(***************************************************************************)
Closed(S) == \A k \in S \cap nodes : parents(k) \subseteq S

C30_ClosedAppliedSetStaysClosed ==
    Closed(applied_changes) => Closed(recorder_applied_changes)

\* A run that started from a closed set has recorded a change and a parent
\* of it, and is still running.
C30_Witness ==
    /\ Closed(applied_changes)
    /\ pc = "apply_change"
    /\ \E k \in nodes \ applied_changes :
           /\ store[k] > 0
           /\ \E y \in parents(k) : y \notin applied_changes

(***************************************************************************)
(* C24: get_change_by_prefix(app_label, name_prefix) returns the change    *)
(* when exactly one change name of that app begins with the prefix, raises *)
(* AmbiguityError when more than one does, also when one of them is the    *)
(* prefix itself, and raises KeyError when none does; the changes of other *)
(* apps are never among the matches.                                       *)
(***************************************************************************)
Matches ==
    {key \in disk_changes :
        /\ key[1] = lookup.app_label
        /\ \E rest \in Strings(MaxName) : key[2] = lookup.name_prefix \o rest}

C24_PrefixLookup ==
    pc # "idle" =>
        /\ lookup.results = Matches
        /\ \A key \in lookup.results : key[1] = lookup.app_label
        /\ Cardinality(Matches) = 1 =>
               pc = "done" /\ err = "" /\ lookup.ret \in Matches
        /\ Cardinality(Matches) > 1 => pc = "error" /\ err = "AmbiguityError"
        /\ Cardinality(Matches) = 0 => pc = "error" /\ err = "KeyError"

\* The prefix is the whole name of one change and the beginning of another
\* of the same app, and a change of the other app begins with it too.
C24_Witness ==
    /\ pc = "error"
    /\ err = "AmbiguityError"
    /\ <<lookup.app_label, lookup.name_prefix>> \in disk_changes
    /\ \E key \in disk_changes :
           key[1] # lookup.app_label /\ startswith(key[2], lookup.name_prefix)

(***************************************************************************)
(* C25: check_key returns a key that is no sentinel unchanged; returns     *)
(* None for "__first__" of the app of the change that declares it; returns *)
(* None for a sentinel of an unchanged app; and for a changed app that has *)
(* a root (leaf) returns for "__first__" its root node and for             *)
(* "__latest__" its leaf node, the least one in key order.                 *)
(***************************************************************************)
RawKeys == LoaderKeys \cup (LoaderApps \X Sentinels)

AppsOnDisk == {k[1] : k \in nodes}

RootsOf(a) == {k \in nodes : k[1] = a /\ dependencies[k] = {}}

Least(k, S) == k \in S /\ \A x \in S : x = k \/ KeyLess(k, x)

NoDependency == [ret |-> <<>>, err |-> ""]

C25_CheckKeyResolvesSentinels ==
    /\ \A key \in RawKeys, current_app \in AppsOnDisk :
           LET r == check_key(key, current_app)
           IN  /\ key[2] \notin Sentinels => r = [ret |-> <<key>>, err |-> ""]
               /\ key = <<current_app, __first__>> => r = NoDependency
               /\ (key[2] \in Sentinels /\ key[1] \in loader.unchanged_apps) =>
                      r = NoDependency
               /\ (/\ key[1] \in loader.changed_apps
                   /\ key[1] # current_app
                   /\ key[2] = __first__
                   /\ RootsOf(key[1]) # {}) =>
                      r.err = "" /\ Len(r.ret) = 1 /\ Least(r.ret[1], RootsOf(key[1]))
               /\ (/\ key[1] \in loader.changed_apps
                   /\ key[1] # current_app
                   /\ key[2] = __latest__
                   /\ LeavesOf(key[1]) # {}) =>
                      r.err = "" /\ Len(r.ret) = 1 /\ Least(r.ret[1], LeavesOf(key[1]))
    /\ \A k \in nodes : dependencies[k] \subseteq nodes

\* The graph was built; app 1 has two changes in a chain, the change of
\* app 2 declared (1, "__latest__"), the call returned the leaf of app 1 and
\* the edge to it was added.
C25_Witness ==
    /\ pc = "done"
    /\ <<1, 1>> \in dependencies[<<1, 2>>]
    /\ \E i \in 1..Len(log) : log[i] = <<"check_key", <<1, __latest__>>, 2, <<<<1, 2>>>>>>
    /\ dependencies[<<2, 1>>] = {<<1, 2>>}

(***************************************************************************)
(* C26: a sentinel of a changed app that has no change on disk raises      *)
(* ValueError "Dependency on app with no changes", or with                 *)
(* ignore_no_changes resolves to None; a sentinel of an app that is        *)
(* neither changed nor unchanged raises ValueError "Dependency on unknown  *)
(* app" whatever ignore_no_changes is; build_graph stops at the error.     *)
(***************************************************************************)
C26_SentinelErrors ==
    /\ \A key \in LoaderApps \X Sentinels, current_app \in AppsOnDisk :
           LET r == check_key(key, current_app)
           IN  /\ (/\ key[1] \in loader.changed_apps
                   /\ key[1] \notin AppsOnDisk) =>
                      IF loader.ignore_no_changes
                      THEN r = NoDependency
                      ELSE r.err = "ValueError: Dependency on app with no changes"
               /\ key[1] \notin loader.changed_apps \cup loader.unchanged_apps =>
                      r.err = "ValueError: Dependency on unknown app"
    /\ pc = "error" =>
           /\ log # <<>>
           /\ log[Len(log)][2][2] \in Sentinels
           /\ log[Len(log)][4] = <<>>
           /\ loader.parents # <<>>
           /\ (err = "ValueError: Dependency on unknown app") <=>
                  (log[Len(log)][2][1] \notin loader.changed_apps \cup loader.unchanged_apps)

\* build_graph stopped at a sentinel of a changed app without changes, after
\* another change's sentinel of an unknown app would have been next.
C26_Witness ==
    /\ pc = "error"
    /\ err = "ValueError: Dependency on app with no changes"
    /\ log[Len(log)][2][1] \in loader.changed_apps \ AppsOnDisk
    /\ \E k \in loader.todo : \E parent \in loader.dependencies[k] :
           parent[1] \notin loader.changed_apps \cup loader.unchanged_apps

(***************************************************************************)
(* C27: an operation is reversible exactly when reverse_sql / reverse_code *)
(* was given; database_backwards of an operation without one fails with    *)
(* IrreversibleError, runs no reverse command and leaves the change in the *)
(* applied set.                                                            *)
(***************************************************************************)
BackwardsAsked(i) == log # <<>> /\ log[1] = <<"database_backwards", i>>

C27_IrreversibleErrorRaised ==
    \A i \in 1..Len(operations) :
        /\ reversible(operations[i]) <=> operations[i].reverse
        /\ (BackwardsAsked(i) /\ ~operations[i].reverse) =>
               /\ pc = "error"
               /\ err = "IrreversibleError"
               /\ Len(log) = 1
               /\ recorder_applied_changes = applied_changes

(***************************************************************************)
(* C28: two runs on the same database do not exclude one another.  Every   *)
(* record_applied of either run adds a row, whatever the other run has     *)
(* recorded, and a run that ends well has called the backend for and       *)
(* recorded each change of its plan; so when both runs read the table      *)
(* before either has recorded a change u that both plan, u's               *)
(* database_forwards runs twice and u gets two rows.                       *)
(***************************************************************************)
Recorded(u, l) == Count(<<"record_applied", u>>, l)

Forwards(u, l) == Count(<<"database_forwards", u>>, l)

\* The applied set the first process read when the table was as at the start.
ReadAtStart == IF peer.id = 1 THEN peer.applied_changes ELSE applied_changes

RanPlan(p, fk, l) ==
    \A u \in units(p) : Recorded(u, l) = 1 /\ (~fk => Forwards(u, l) = 1)

C28_RunsNotExcluded ==
    /\ \A u \in AllKeys :
           store[u] = (IF u \in ReadAtStart THEN 1 ELSE 0)
                          + Recorded(u, log) + Recorded(u, peer.log)
    /\ pc = "done" => RanPlan(plan, fake, log)
    /\ peer.pc = "done" => RanPlan(peer.plan, peer.fake, peer.log)

\* Both runs ended well, both had read the table without u, both called
\* u's database_forwards and both recorded u: u has two rows.
C28_Witness ==
    /\ pc = "done"
    /\ peer.pc = "done"
    /\ \E u \in nodes :
           /\ u \notin applied_changes \cup peer.applied_changes
           /\ Forwards(u, log) = 1
           /\ Forwards(u, peer.log) = 1
           /\ Recorded(u, log) = 1
           /\ Recorded(u, peer.log) = 1
           /\ store[u] = 2

(***************************************************************************)
(* C29: what changes the applied set.  As claimed: only the executor's     *)
(* apply, which adds exactly one key, and its unapply, which removes       *)
(* exactly one key.  As amended: the executor's apply (one key added),     *)
(* its unapply (one key removed), ChangeRecorder.flush (every row removed) *)
(* and the ChangeLog views (one row created, deleted or moved); building   *)
(* the graph, planning and the rest of the run leave it unchanged.         *)
(***************************************************************************)
ExecutorApplies ==
    \E k \in nodes :
        /\ log' = Append(log, <<"record_applied", k>>)
        /\ store' = [store EXCEPT ![k] = @ + 1]

ExecutorUnapplies ==
    \E k \in nodes :
        /\ log' = Append(log, <<"record_unapplied", k>>)
        /\ store' = [store EXCEPT ![k] = 0]

Flushed == (\A k \in AllKeys : store'[k] = 0) /\ UNCHANGED executor_vars

\* One row was created, deleted, or deleted and created under another key.
ViewWrote ==
    /\ UNCHANGED executor_vars
    /\ \E S \in SUBSET AllKeys :
           /\ Cardinality(S) \in {1, 2}
           /\ \A k \in AllKeys \ S : store'[k] = store[k]
           /\ \A k \in S : store'[k] - store[k] \in {1, -1}
           /\ Cardinality({k \in S : store'[k] > store[k]}) <= 1
           /\ Cardinality({k \in S : store'[k] < store[k]}) <= 1

C31_BuildGraphOrderIndependent ==
    (pc \in {"done", "error"} /\ built # NoBuilt) =>
        /\ built.err = err
        /\ err = "" => built.dependencies = dependencies

(***************************************************************************)
(* C32: when a forwards run that is not fake is over, the project state    *)
(* it returns is the state it started from with the state_forwards of      *)
(* every change it applied replayed into it.                               *)
(***************************************************************************)
C32_ForwardRunReplaysState ==
    (pc = "done" /\ ~fake /\ plan # <<>> /\ all_forwards(plan)) =>
        state = create_project_state(TRUE, full_plan) \cup
                    {k \in nodes : InSeq(<<"database_forwards", k>>, log)}

(***************************************************************************)
(* ProjectState objects.  The heap is the sequence of the objects made so  *)
(* far; an object is the sequence of the changes whose state_forwards ran  *)
(* on it; a reference is the object's index.                               *)
(***************************************************************************)
\* mutate_state that never clones, whatever preserve is.
mutate_state_in_place(heap, key, project_state, preserve) ==
    [heap |-> [heap EXCEPT ![project_state] = Append(@, key)],
     new_state |-> project_state]

\* mutate_state that clones and then runs state_forwards on the input.
mutate_state_clone_unused(heap, key, project_state, preserve) ==
    LET cloned == IF preserve THEN Append(heap, heap[project_state]) ELSE heap
        new_state == IF preserve THEN Len(heap) + 1 ELSE project_state
    IN  [heap |-> [cloned EXCEPT ![project_state] = Append(@, key)],
         new_state |-> new_state]

\* Change.mutate_state(project_state, preserve): new_state is project_state
\* or its clone, and every operation's state_forwards runs on new_state.
mutate_state(heap, key, project_state, preserve) ==
    LET cloned == IF preserve THEN Append(heap, heap[project_state]) ELSE heap
        new_state == IF preserve THEN Len(heap) + 1 ELSE project_state
    IN  [heap |-> [cloned EXCEPT ![new_state] = Append(@, key)],
         new_state |-> new_state]

\* One call of mutate_state, as the history keeps it.
mutate_state_call(heap, key, project_state, preserve) ==
    LET r == mutate_state(heap, key, project_state, preserve)
    IN  [preserve |-> preserve, key |-> key, project_state |-> project_state,
         new_state |-> r.new_state, before |-> heap, after |-> r.heap]

(***************************************************************************)
(* ChangeExecutor._change_all_backwards(plan, full_plan, fake), called     *)
(* with the backwards plan of the targets and the full plan, as            *)
(* ChangeExecutor.change computes them (change itself calls the undefined  *)
(* _migrate_all_backwards).  The state is a new ProjectState, and the      *)
(* local applied_changes are the loader's that are in the graph.           *)
(***************************************************************************)
change_all_backwards(tgts, fk) ==
    /\ pc = "idle"
    /\ LET p == change_plan(tgts, FALSE)
           fp == change_plan(leaf_nodes, TRUE)
       IN  /\ p.cycle = <<>>
           /\ fp.cycle = <<>>
           /\ p.plan # <<>>
           /\ all_backwards(p.plan)
           /\ plan' = p.plan
           /\ full_plan' = fp.plan
           /\ changes_to_run' = units(p.plan)
    /\ targets' = tgts
    /\ fake' = fk
    /\ idx' = 1
    /\ snapshots' = [NoSnapshots EXCEPT !.heap = << <<>> >>, !.state = 1,
                                        !.applied_changes = applied_changes \cap nodes]
    /\ log' = << <<"render_start">> >>
    /\ pc' = "states"
    /\ UNCHANGED <<graph_vars, command_vars, lookup, loader, operations, built, peer, store,
                   applied_changes, ip, err, cycle, aborted, state>>

\* One turn of the first "for change, _ in full_plan": the state before a
\* change of the plan is kept in states and the loop goes on with the clone;
\* an applied change outside the plan mutates the state in place.
change_all_backwards_states ==
    /\ pc = "states"
    /\ IF changes_to_run = {} \/ idx > Len(full_plan)
       THEN /\ pc' = "unapply"
            /\ idx' = 1
            /\ log' = Append(log, <<"render_success">>)
            /\ UNCHANGED <<changes_to_run, snapshots>>
       ELSE /\ idx' = idx + 1
            /\ UNCHANGED <<pc, log>>
            /\ IF change_now \in changes_to_run
               THEN LET c == mutate_state_call(snapshots.heap, change_now,
                                               snapshots.state, TRUE)
                    IN  /\ snapshots' =
                               [snapshots EXCEPT
                                   !.states = (change_now :> snapshots.state) @@ @,
                                   !.captured =
                                       (change_now :> snapshots.heap[snapshots.state]) @@ @,
                                   !.heap = c.after,
                                   !.state = c.new_state,
                                   !.calls = Append(@, c)]
                        /\ changes_to_run' = changes_to_run \ {change_now}
               ELSE IF change_now \in snapshots.applied_changes
               THEN LET c == mutate_state_call(snapshots.heap, change_now,
                                               snapshots.state, FALSE)
                    IN  /\ snapshots' = [snapshots EXCEPT !.heap = c.after,
                                                          !.calls = Append(@, c)]
                        /\ UNCHANGED changes_to_run
               ELSE UNCHANGED <<changes_to_run, snapshots>>
    /\ UNCHANGED <<graph_vars, command_vars, lookup, loader, operations, built, peer, store,
                   applied_changes, targets, fake, plan, full_plan, ip, err, cycle, aborted,
                   state>>

\* One turn of "for change, _ in plan": unapply_change(states[change],
\* change, fake).  Not fake, it reads change.atomic and Change has none.
unapply_change ==
    /\ pc = "unapply"
    /\ idx <= Len(plan)
    /\ LET key == plan[idx][1]
       IN  IF key \notin DOMAIN snapshots.states
           THEN /\ raise("KeyError", <<>>)
                /\ UNCHANGED <<snapshots, store, log, idx>>
           ELSE LET handed == [key |-> key,
                               state |-> snapshots.states[key],
                               content |-> snapshots.heap[snapshots.states[key]]]
                IN  IF fake
                    THEN /\ snapshots' = [snapshots EXCEPT
                                             !.handed = Append(@, handed),
                                             !.applied_changes = @ \ {key}]
                         /\ store' = [store EXCEPT ![key] = 0]
                         /\ log' = log \o << <<"unapply_start", key>>,
                                             <<"record_unapplied", key>>,
                                             <<"unapply_success", key>> >>
                         /\ idx' = idx + 1
                         /\ UNCHANGED <<pc, err, cycle>>
                    ELSE /\ snapshots' = [snapshots EXCEPT !.handed = Append(@, handed)]
                         /\ log' = Append(log, <<"unapply_start", key>>)
                         /\ raise("AttributeError", <<>>)
                         /\ UNCHANGED <<store, idx>>
    /\ UNCHANGED <<graph_vars, command_vars, lookup, loader, operations, built, peer,
                   applied_changes, targets, fake, plan, full_plan, changes_to_run, ip,
                   aborted, state>>

\* for change, _ in full_plan[index:]: the applied ones mutate the state.
RECURSIVE mutate_applied(_, _, _, _)
mutate_applied(snap, fp, i, project_state) ==
    IF i > Len(fp) THEN snap
    ELSE IF fp[i][1] \in snap.applied_changes
    THEN LET c == mutate_state_call(snap.heap, fp[i][1], project_state, FALSE)
         IN  mutate_applied([snap EXCEPT !.heap = c.after, !.calls = Append(@, c)],
                            fp, i + 1, project_state)
    ELSE mutate_applied(snap, fp, i + 1, project_state)

\* The state returned: the one before the last change unapplied, mutated
\* by the changes from there on that are still applied.
change_all_backwards_return ==
    /\ pc = "unapply"
    /\ idx > Len(plan)
    /\ LET last_unapplied_change == plan[Len(plan)][1]
           project_state == snapshots.states[last_unapplied_change]
           keys == [i \in 1..Len(full_plan) |-> full_plan[i][1]]
       IN  snapshots' =
               IF InSeq(last_unapplied_change, keys)
               THEN mutate_applied([snapshots EXCEPT !.state = project_state], full_plan,
                                   IndexOf(last_unapplied_change, keys), project_state)
               ELSE [snapshots EXCEPT !.state = project_state]
    /\ pc' = "done"
    /\ UNCHANGED <<graph_vars, command_vars, lookup, loader, operations, built, peer, store,
                   applied_changes, targets, fake, plan, full_plan, changes_to_run, idx, ip,
                   err, cycle, log, aborted, state>>

NextSnapshots ==
    \/ \E tgts \in TargetLists, fk \in BOOLEAN : change_all_backwards(tgts, fk)
    \/ change_all_backwards_states
    \/ unapply_change
    \/ change_all_backwards_return

SpecSnapshots == Init /\ [][NextSnapshots]_vars

(***************************************************************************)
(* C33: the state handed to unapply_change for a change N holds the        *)
(* state_forwards of the changes before N in the full plan that the        *)
(* loader read as applied, of those and of no other, in the order of the   *)
(* full plan; and it is what it was when the loop kept it in states.       *)
(***************************************************************************)
AppliedBefore(N) ==
    LET keys == [i \in 1..Len(full_plan) |-> full_plan[i][1]]
    IN  SelectSeq(SubSeq(keys, 1, IndexOf(N, keys) - 1),
                  LAMBDA k : k \in applied_changes)

C33_PreStateOfUnapply ==
    \A i \in 1..Len(snapshots.handed) :
        LET h == snapshots.handed[i]
        IN  /\ h.content = AppliedBefore(h.key)
            /\ h.content = snapshots.captured[h.key]

\* Two changes were unapplied, the second one handed a state that holds
\* a change of the plan and an applied change that stays.
C33_Witness ==
    /\ pc = "done"
    /\ Len(snapshots.handed) >= 2
    /\ \E i \in 1..Len(snapshots.handed) :
           LET h == snapshots.handed[i]
           IN  /\ \E k \in units(plan) : InSeq(k, h.content)
               /\ \E k \in applied_changes \ units(plan) : InSeq(k, h.content)

(***************************************************************************)
(* C36: mutate_state with preserve=True returns a new ProjectState that    *)
(* holds the change's state_forwards and leaves the one it was given as    *)
(* it was; with preserve=False it mutates the one it was given and         *)
(* returns that very object.  No other object changes in either case.      *)
(***************************************************************************)
C36_MutateStatePreserve ==
    \A i \in 1..Len(snapshots.calls) :
        LET c == snapshots.calls[i]
            given == c.before[c.project_state]
        IN  /\ c.after[c.new_state] = Append(given, c.key)
            /\ \A o \in 1..Len(c.before) : o # c.new_state => c.after[o] = c.before[o]
            /\ IF c.preserve
               THEN /\ c.new_state \notin 1..Len(c.before)
                    /\ Len(c.after) = Len(c.before) + 1
               ELSE /\ c.new_state = c.project_state
                    /\ Len(c.after) = Len(c.before)

\* A backwards run called mutate_state both ways, and the object given to
\* a preserving call was mutated in place by an earlier call.
C36_Witness ==
    \E i, j \in 1..Len(snapshots.calls) :
        /\ i < j
        /\ ~snapshots.calls[i].preserve
        /\ snapshots.calls[j].preserve
        /\ snapshots.calls[j].project_state = snapshots.calls[i].project_state

(***************************************************************************)
(* C34: in the log of a run, the backend call of a change comes right      *)
(* after the change's apply_start; apply_success comes right after the     *)
(* change's record_applied, which follows its apply_start and, when the    *)
(* run is not fake, its backend call; nothing follows a backend call that  *)
(* failed; and an apply_start that is not the first entry comes right      *)
(* after an apply_success, so the entries of two changes never interleave. *)
(***************************************************************************)
C34_NotificationsBracketApply ==
    \A j \in 1..Len(log) :
        LET k == log[j][2]
        IN  /\ log[j][1] \in {"database_forwards", "database_error"} =>
                   j > 1 /\ log[j - 1] = <<"apply_start", k>>
            /\ log[j][1] = "database_error" => j = Len(log)
            /\ log[j][1] = "record_applied" =>
                   j > 1 /\ log[j - 1] = <<(IF fake THEN "apply_start"
                                                    ELSE "database_forwards"), k>>
            /\ log[j][1] = "apply_success" =>
                   j > 1 /\ log[j - 1] = <<"record_applied", k>>
            /\ (log[j][1] = "apply_start" /\ j > 1) =>
                   /\ log[j - 1][1] = "apply_success"
                   /\ log[j - 1][2] # k

\* A run that is not fake applied one change, reported its success, and
\* ended in the backend error of the next one.
C34_Witness ==
    /\ pc = "error"
    /\ err = "BackendError"
    /\ ~fake
    /\ \E a, b \in nodes :
           /\ a # b
           /\ log = << <<"apply_start", a>>, <<"database_forwards", a>>,
                       <<"record_applied", a>>, <<"apply_success", a>>,
                       <<"apply_start", b>>, <<"database_error", b>> >>

(***************************************************************************)
(* C35: a step that writes the change log leaves the loader's              *)
(* applied_changes as it is; applied_changes changes only when a new       *)
(* executor builds its loader, and is then what the recorder returns; and  *)
(* the plan of a call of change is the plan from the applied_changes the   *)
(* loader holds, whatever the change log says by then.                     *)
(***************************************************************************)
C35_LoaderAppliedReadOnce ==
    [][/\ store' # store => applied_changes' = applied_changes
       /\ applied_changes' # applied_changes =>
              /\ pc # "idle"
              /\ pc' = "idle"
              /\ applied_changes' = recorder_applied_changes
       /\ (pc = "idle" /\ pc' # "idle" /\ cycle' = <<>>) =>
              plan' = change_plan_from(targets', applied_changes).plan]_vars

\* The executor was called again after a run that applied k: the loader
\* still has k as not applied, the second run planned k and wrote a second
\* row for it.
C35_Witness ==
    /\ pc = "done"
    /\ \E k \in units(plan) :
           /\ k \notin applied_changes
           /\ Count(<<"record_applied", k>>, log) = 1
           /\ store[k] = 2

(***************************************************************************)
(* C37.  Two changes are unordered when neither is an ancestor of the      *)
(* other.  The order of a forwards plan is explained when, for every       *)
(* change x that precedes an unordered change y, some node has two parents *)
(* p < q with x equal to or an ancestor of p and y equal to or an ancestor *)
(* of q, or x is planned for an earlier target than y.                     *)
(***************************************************************************)
AncestorsOrSelf(k) == Ancestors(k) \cup {k}

Unordered(x, y) == x # y /\ x \notin Ancestors(y) /\ y \notin Ancestors(x)

ParentsInKeyOrder(x, y) ==
    \E n \in nodes : \E p, q \in parents(n) :
        KeyLess(p, q) /\ x \in AncestorsOrSelf(p) /\ y \in AncestorsOrSelf(q)

TargetsInListOrder(x, y, tgts) ==
    \E s, t \in 1..Len(tgts) :
        /\ s < t
        /\ tgts[s] \in nodes /\ x \in AncestorsOrSelf(tgts[s])
        /\ tgts[t] \in nodes /\ y \in AncestorsOrSelf(tgts[t])

OrderExplained(p, tgts) ==
    \A i, j \in 1..Len(p) :
        (i < j /\ Unordered(p[i][1], p[j][1])) =>
            ParentsInKeyOrder(p[i][1], p[j][1]) \/ TargetsInListOrder(p[i][1], p[j][1], tgts)

MaxCalls == 4

\* ChangeRecorder.record_applied(app, name): change_qs.create(app, name)
ChangeRecorder_record_applied(key) ==
    /\ Len(log) < MaxCalls
    /\ store[key] < MaxRows
    /\ store' = [store EXCEPT ![key] = @ + 1]
    /\ log' = Append(log, <<"record_applied", key, recorder_applied_changes>>)
    /\ UNCHANGED <<graph_vars, package_vars, command_vars, executor_vars_but_log>>

\* record_unapplied that deletes one row of the key.
ChangeRecorder_record_unapplied_one_row(key) ==
    /\ Len(log) < MaxCalls
    /\ store' = [store EXCEPT ![key] = IF @ > 0 THEN @ - 1 ELSE 0]
    /\ log' = Append(log, <<"record_unapplied", key, recorder_applied_changes>>)
    /\ UNCHANGED <<graph_vars, package_vars, command_vars, executor_vars_but_log>>

\* ChangeRecorder.record_unapplied(app, name):
\* change_qs.filter(app=app, name=name).delete()
ChangeRecorder_record_unapplied(key) ==
    /\ Len(log) < MaxCalls
    /\ store' = [store EXCEPT ![key] = 0]
    /\ log' = Append(log, <<"record_unapplied", key, recorder_applied_changes>>)
    /\ UNCHANGED <<graph_vars, package_vars, command_vars, executor_vars_but_log>>

InitRecorder ==
    /\ Init
    /\ disk_changes = {<<1, 1>>, <<1, 2>>}
    /\ \A k \in AllKeys : dependencies[k] = {}

NextRecorder ==
    \/ \E key \in nodes : ChangeRecorder_record_applied(key)
    \/ \E key \in nodes : ChangeRecorder_record_unapplied(key)

SpecRecorder == InitRecorder /\ [][NextRecorder]_vars

(***************************************************************************)
(* C38: right after record_unapplied(k), applied_changes() has not k,      *)
(* however many rows of k there were, and has the other keys as before;    *)
(* right after record_applied(k) it has k and the other keys as before;    *)
(* and record_applied(k) followed by record_unapplied(k), on a table       *)
(* without k, gives back what applied_changes() returned before the two.   *)
(***************************************************************************)
\* What applied_changes() returned right after the call j of the log.
AppliedAfter(j) == IF j = Len(log) THEN recorder_applied_changes ELSE log[j + 1][3]

C38_AppliedSetIsASet ==
    \A j \in 1..Len(log) :
        LET k == log[j][2]
        IN  /\ log[j][1] = "record_unapplied" => AppliedAfter(j) = log[j][3] \ {k}
            /\ log[j][1] = "record_applied" => AppliedAfter(j) = log[j][3] \cup {k}
            /\ (/\ j > 1
                /\ log[j][1] = "record_unapplied"
                /\ log[j - 1] = <<"record_applied", k, log[j - 1][3]>>
                /\ k \notin log[j - 1][3]) => AppliedAfter(j) = log[j - 1][3]

\* k was recorded twice and then unrecorded, with another key applied all
\* along; then k was recorded and unrecorded again.
C38_Witness ==
    \E k, o \in nodes :
        /\ k # o
        /\ Len(log) = 4
        /\ o \in log[1][3]
        /\ k \in log[1][3]
        /\ log[1][1] = "record_applied" /\ log[1][2] = k
        /\ log[2][1] = "record_unapplied" /\ log[2][2] = k
        /\ log[3][1] = "record_applied" /\ log[3][2] = k
        /\ log[4][1] = "record_unapplied" /\ log[4][2] = k
        /\ recorder_applied_changes = {o}

(***************************************************************************)
(* makechange --merge without app labels.  A name n on disk stands for     *)
(* "000n_<something>"; the name of a merge change, "%04i_merge_<time>",    *)
(* is MergeSuffix + the number, a name that no change on disk has.         *)
(***************************************************************************)
MergeSuffix == 10

\* ChangeAutodetector.parse_number(name): the number the name begins with.
parse_number(name) == name % MergeSuffix

\* "%04i_%s" % (biggest_number + 1, "merge_%s" % timestamp)
merge_name(number) == MergeSuffix + number

Max(S) == CHOOSE x \in S : \A y \in S : y <= x

\* change.ancestry: the forwards plan of the leaf, the changes of its app.
ancestry(app_label, change_name) ==
    SelectSeq(forwards_plan(<<app_label, change_name>>).order,
              LAMBDA mig : mig[1] = app_label)

\* sum(1 for generation in takewhile(all_items_equal, zip(*ancestries)))
RECURSIVE common_ancestor_count(_, _, _)
common_ancestor_count(app_label, change_names, i) ==
    IF /\ \A n \in change_names : i <= Len(ancestry(app_label, n))
       /\ \A n, m \in change_names : ancestry(app_label, n)[i] = ancestry(app_label, m)[i]
    THEN 1 + common_ancestor_count(app_label, change_names, i + 1)
    ELSE 0

\* The merge change depending on the leaf with the biggest number only.
merge_dependencies_biggest(app_label, change_names) ==
    {<<app_label, Max(change_names)>>}

\* "dependencies": [(app_label, change.name) for change in merge_changes]
merge_dependencies(app_label, change_names) ==
    {<<app_label, n>> : n \in change_names}

\* The apps of conflicts that the loop of handle_merge has not come to.
merge_todo == DOMAIN conflicts \ {log[i][2] : i \in 2..Len(log)}

\* Command.handle: the loader is built, the conflicts are detected, and
\* the command raises, returns or goes into handle_merge.
makechange_handle(merge) ==
    /\ pc = "idle"
    /\ log = <<>>
    /\ conflicts' = detect_conflicts_loop(leaf_nodes, 1, NoConflicts, {})
    /\ log' = << <<"makechange", merge>> >>
    /\ IF DOMAIN conflicts' # {} /\ ~merge
       THEN raise("CommandError: Conflicting changes detected", <<>>)
       ELSE IF merge /\ DOMAIN conflicts' = {}
       THEN pc' = "done" /\ UNCHANGED <<err, cycle>>
       ELSE IF merge
       THEN pc' = "handle_merge" /\ UNCHANGED <<err, cycle>>
       ELSE raise("CommandError: You must supply at least one app label", <<>>)
    /\ UNCHANGED <<graph_vars, package_vars, connection, store, applied_changes, targets,
                   fake, plan, full_plan, changes_to_run, idx, ip, aborted, state>>

\* One turn of "for app_label, change_names in conflicts.items()"; ask_merge
\* is the questioner's answer.
handle_merge(app_label, ask_merge) ==
    /\ pc = "handle_merge"
    /\ app_label \in merge_todo
    /\ LET change_names == conflicts[app_label]
           new_change == <<app_label,
                           merge_name(Max({parse_number(n) : n \in change_names}) + 1)>>
       IN  IF \E n \in change_names : forwards_plan(<<app_label, n>>).cycle # <<>>
           THEN /\ raise("CircularDependencyError", <<>>)
                /\ UNCHANGED <<graph_vars, log>>
           ELSE IF common_ancestor_count(app_label, change_names, 1) = 0
           THEN /\ raise("ValueError: Could not find common ancestor", <<>>)
                /\ UNCHANGED <<graph_vars, log>>
           ELSE IF ask_merge
           THEN /\ disk_changes' = disk_changes \cup {new_change}
                /\ dependencies' =
                       (new_change :> merge_dependencies(app_label, change_names))
                           @@ dependencies
                /\ log' = Append(log, <<"merge", app_label, new_change>>)
                /\ UNCHANGED <<pc, err, cycle>>
           ELSE /\ log' = Append(log, <<"declined", app_label>>)
                /\ UNCHANGED <<graph_vars, pc, err, cycle>>
    /\ UNCHANGED <<package_vars, command_vars, store, applied_changes, targets, fake, plan,
                   full_plan, changes_to_run, idx, ip, aborted, state>>

\* The loop is over.
handle_merge_return ==
    /\ pc = "handle_merge"
    /\ merge_todo = {}
    /\ pc' = "done"
    /\ UNCHANGED <<graph_vars, package_vars, command_vars, store, applied_changes, targets,
                   fake, plan, full_plan, changes_to_run, idx, ip, err, cycle, log, aborted,
                   state>>

InitMerge == Init /\ \A k \in AllKeys : store[k] = 0

NextMerge ==
    \/ \E merge \in BOOLEAN : makechange_handle(merge)
    \/ \E app_label \in AppLabels, ask_merge \in BOOLEAN : handle_merge(app_label, ask_merge)
    \/ handle_merge_return

SpecMerge == InitMerge /\ [][NextMerge]_vars

(***************************************************************************)
(* C39.  What a loader built now would report, and the leaves of an app.   *)
(***************************************************************************)
ConflictsNow == detect_conflicts_loop(leaf_nodes, 1, NoConflicts, {})

Merged(app_label) == \E i \in 2..Len(log) : log[i][1] = "merge" /\ log[i][2] = app_label

\* C39 as claimed: when makechange --merge is over and no merge was
\* declined, every app that detect_conflicts reported has one leaf and is
\* reported no more.
C39_EveryConflictMerged ==
    (/\ pc \in {"done", "error"}
     /\ log # <<>>
     /\ log[1] = <<"makechange", TRUE>>
     /\ \A i \in 1..Len(log) : log[i][1] # "declined") =>
        \A app_label \in DOMAIN conflicts :
            /\ Cardinality(LeavesOf(app_label)) = 1
            /\ app_label \notin DOMAIN ConflictsNow

\* C39: the merge change that handle_merge wrote for an app depends on
\* every leaf detect_conflicts reported for the app and on nothing else,
\* it is the only leaf of the app, and the app is reported no more; an app
\* that was reported and has no merge change is still reported, with the
\* same leaves.
C39_MergeChangeJoinsLeaves ==
    /\ \A i \in 2..Len(log) :
           log[i][1] = "merge" =>
               LET app_label == log[i][2]
                   new_change == log[i][3]
               IN  /\ parents(new_change) = {<<app_label, n>> : n \in conflicts[app_label]}
                   /\ LeavesOf(app_label) = {new_change}
                   /\ app_label \notin DOMAIN ConflictsNow
    /\ \A app_label \in DOMAIN conflicts :
           ~Merged(app_label) =>
               /\ app_label \in DOMAIN ConflictsNow
               /\ ConflictsNow[app_label] = conflicts[app_label]

\* The command is over and wrote the merge change of two leaves.
C39_Witness ==
    /\ pc = "done"
    /\ \E app_label \in DOMAIN conflicts :
           /\ Merged(app_label)
           /\ Cardinality(conflicts[app_label]) = 2
           /\ Cardinality(LeavesOf(app_label)) = 1

====
